---- MODULE Spec2Model ----
(***************************************************************************)
(* Slot-mapping and bundle-serialization engine of the avatar assembly UI. *)
(*                                                                         *)
(* Strings are modelled as sequences of one-character strings, so that     *)
(* the string operations of the source (toLowerCase, includes, startsWith, *)
(* split, replace, RegExp.test) are computed character by character.       *)
(*                                                                         *)
(* The components do not share state, so each is checked as a state       *)
(* machine of its own, the variables of the others left unchanged:         *)
(*   SpecAM     AutoMapper (utils/autoMapper)                              *)
(*   SpecSvc    AutoMappingService (application/services)                  *)
(*   SpecAvatar the Avatar aggregate's mapping table                       *)
(*   SpecDraw   the DrawOrder value object                                 *)
(*   SpecAtlas  BundleExporter.generateAtlas                               *)
(*   SpecZ      the ZOffset value object and the inspector's z-nudge       *)
(*   SpecVal    SchemaValidator                                            *)
(*   SpecExport BundleExporter.exportBundle                                *)
(*   SpecUseCase MapSliceToSlotUseCase over the Avatar aggregate           *)
(*   SpecRules  custom rules of the two rule engines                       *)
(*   SpecCanvas the z-index of the sprites of AvatarCanvas                 *)
(*   SpecApp    the assembly state of the application                      *)
(*   SpecHook   useAvatarAssembly.mapSliceToSlot                           *)
(***************************************************************************)
EXTENDS Integers, Sequences, FiniteSets, TLC

VARIABLES
  \* ---- rule engines ----
  amRules,      \* AutoMapper.rules
  amSlot,       \* slice id -> canonicalSlot of the ExtractedSlice (NoSlot: mapped = false)
  amResult,     \* what the last AutoMapper.mapSlices returned, its argument, the rule count then
  amAdded,      \* history: (slice, slot) -> rules appended by manualMap calls with these arguments
  svcRules,     \* AutoMappingService.rules
  svcResult,    \* what the last AutoMappingService.mapSlices returned, its argument, the rule count then
  svcAdded,     \* history: (slice, slot) -> rules appended by learnFromMapping calls with these arguments
  amLast,       \* history: the last AutoMapper operation, its arguments, the rule count before it
  svcLast,      \* history: the last AutoMappingService operation and its arguments
  svcCustom,    \* history: the last addCustomRule call, its arguments, the rules before it
  \* ---- Avatar aggregate ----
  sliceMappings,  \* Avatar._sliceMappings: [tbl, keys], see below
  lastAdded,      \* history: slot path -> the mapping passed to the latest addSliceMapping
  avLast,         \* history: the last two Avatar operations, the older first
  \* ---- DrawOrder ----
  patterns,     \* DrawOrder._patterns
  sortInput,    \* argument of the last sortSlotPaths call
  sortOutput,   \* its result
  \* ---- generateAtlas ----
  atlasPc,      \* "idle" | "packing" | "done"
  mappedSlices, \* BundleExporter.mappedSlices, in Object.entries order: <<[slot, w, h]>>
  avatarSlices, \* avatar.images.slices: slot -> rectangle, NoRect when the key is absent
  avatarAtlas,  \* avatar.images.atlas
  canvasSide,   \* canvas.width = canvas.height
  cursor,       \* [i, currentX, currentY, rowHeight]: loop index and the packing cursor
  drawn,        \* rectangles drawn to the atlas canvas so far: <<[slot, x, y, w, h]>>
  \* ---- ZOffset ----
  zOffset,      \* SliceMapping._zOffset.value of one mapping
  uiZOffset,    \* App state.zOffsets[selectedSlot]
  zLast,        \* history: the last ZOffset operation, its argument, whether it threw
  \* ---- SchemaValidator ----
  valCall,      \* the validator call made: [op, avatar, manifest, items]
  valResult,    \* what it returned: [valid, errors, warnings]
  \* ---- exportBundle ----
  expPc,        \* "idle" | the await the call is at | "saved" | "failed"
  expCalls,     \* exportBundle calls started
  expAvatar,    \* BundleExporter.avatar, the application's avatar object
  expMapped,    \* BundleExporter.mappedSlices
  expOptions,   \* the options of the call
  expIdx,       \* position of the slice loop the call is in
  zipEntries,   \* the entries of the call's zip, in the order written
  avatarJson,   \* the text of the avatar.json entry
  manifestHashes, \* the keys of the hashes map of the manifest.json entry
  expSaved,     \* the archives the call handed to saveAs, as their entries
  expError,     \* the error the call rejected with
  blobFailed,   \* history: the last conversion of the call yielded no blob
  \* ---- MapSliceToSlotUseCase ----
  ucSlices,     \* InMemorySliceRepository.slices: the ids stored
  ucLast,       \* history: the last execute, its request, response and the mappings before it
  ucMappedSliceIds, \* InMemorySliceRepository.mappedSliceIds
  \* ---- AvatarCanvas ----
  cvDrawOrder,  \* the avatar prop's drawOrder
  cvMapped,     \* the keys of the mappedSlices prop, in Object.entries order
  cvZOffsets,   \* App state.zOffsets: slot path -> number, Undefined when the key is absent
  cvZIndex,     \* sprite.zIndex of the sprite of each slot path, Undefined without a sprite
  \* ---- App (assembly state) ----
  appAllSlices,       \* state.allSlices, as slice ids
  appUnmappedSlices,  \* state.unmappedSlices, as slice ids
  appMappedSlices,    \* state.mappedSlices: slot path -> slice id, 0 when the key is absent
  appAvatarSlices,    \* state.avatar.images.slices: slot path -> id of the entry, 0 when absent
  appPsdPathMappings, \* state.psdPathMappings: <<[sliceId, canonical]>>
  \* ---- useAvatarAssembly ----
  hookState,    \* the state of the hook: [allSlices, unmappedSlices, mappedSlices, selectedSlot, error]
  hookLast      \* history: the last mapSliceToSlot call, its arguments and whether it succeeded

amVars     == <<amRules, amSlot, amResult, amAdded, amLast>>
svcVars    == <<svcRules, svcResult, svcAdded, svcLast, svcCustom>>
avatarVars == <<sliceMappings, lastAdded, avLast>>
drawVars   == <<patterns, sortInput, sortOutput>>
atlasVars  == <<atlasPc, mappedSlices, avatarSlices, avatarAtlas, canvasSide, cursor, drawn>>
zVars      == <<zOffset, uiZOffset, zLast>>
valVars    == <<valCall, valResult>>
exportVars == <<expPc, expCalls, expAvatar, expMapped, expOptions, expIdx,
                zipEntries, avatarJson, manifestHashes, expSaved, expError, blobFailed>>
useCaseVars == <<ucSlices, ucLast, ucMappedSliceIds>>
canvasVars == <<cvDrawOrder, cvMapped, cvZOffsets, cvZIndex>>
asmVars    == <<appAllSlices, appUnmappedSlices, appMappedSlices, appAvatarSlices,
                appPsdPathMappings>>
hookVars   == <<hookState, hookLast>>
vars       == <<amVars, svcVars, avatarVars, drawVars, atlasVars, zVars, valVars, exportVars,
                useCaseVars, canvasVars, asmVars, hookVars>>

(***************************************************************************)
(* String primitives (ECMAScript String.prototype)                         *)
(***************************************************************************)
UpperChars == <<"A","B","C","D","E","F","G","H","I","J","K","L","M",
                "N","O","P","Q","R","S","T","U","V","W","X","Y","Z">>
LowerChars == <<"a","b","c","d","e","f","g","h","i","j","k","l","m",
                "n","o","p","q","r","s","t","u","v","w","x","y","z">>
DigitChars == {"0","1","2","3","4","5","6","7","8","9"}

LowerTable == [c \in {UpperChars[i] : i \in 1..26} |->
                 LowerChars[CHOOSE i \in 1..26 : UpperChars[i] = c]]

ToLowerChar(c) == IF c \in DOMAIN LowerTable THEN LowerTable[c] ELSE c

toLowerCase(s) == [i \in 1..Len(s) |-> ToLowerChar(s[i])]

\* s has the substring t at position p (1-based)
HasAt(s, p, t) ==
  /\ p + Len(t) - 1 <= Len(s)
  /\ \A i \in 1..Len(t) : s[p + i - 1] = t[i]

includes(s, t) == \E p \in 1..(Len(s) + 1) : HasAt(s, p, t)

startsWith(s, t) == HasAt(s, 1, t)

\* position of the first occurrence of t in s, 0 when there is none
IndexOf(s, t) ==
  IF includes(s, t) THEN CHOOSE p \in 1..(Len(s) + 1) :
       HasAt(s, p, t) /\ \A q \in 1..(p - 1) : ~HasAt(s, q, t)
  ELSE 0

\* s.replace(t, u) with a string pattern: the first occurrence only
replaceFirst(s, t, u) ==
  LET p == IndexOf(s, t) IN
  IF p = 0 THEN s
  ELSE SubSeq(s, 1, p - 1) \o u \o SubSeq(s, p + Len(t), Len(s))

\* s.replace(/[cs]/g, c): every character of the class cs becomes the character c
replaceClass(s, cs, c) == [i \in 1..Len(s) |-> IF s[i] \in cs THEN c ELSE s[i]]

\* s.split('/'): a non-empty sequence of segments
RECURSIVE split(_, _)
split(s, sep) ==
  LET p == IndexOf(s, <<sep>>) IN
  IF p = 0 THEN <<s>>
  ELSE <<SubSeq(s, 1, p - 1)>> \o split(SubSeq(s, p + 1, Len(s)), sep)

\* array.pop() of a non-empty array
pop(a) == a[Len(a)]

\* `${a}/${b}`
Join2(a, b) == a \o <<"/">> \o b

(***************************************************************************)
(* Regular expressions.  A compiled RegExp is [ignoreCase, elems]; an      *)
(* element is [opt, alts]: one of the strings alts, optional when opt.     *)
(* This covers every construct of the bootstrap patterns: literals,        *)
(* x?, [class]? and (a|b|c).  test() is an unanchored search.  The         *)
(* elements of an ignoreCase RegExp are held lower-cased, and test()       *)
(* lower-cases the text it is given.                                       *)
(***************************************************************************)
RECURSIVE MatchFrom(_, _, _, _)
MatchFrom(elems, k, text, pos) ==
  IF k > Len(elems) THEN TRUE
  ELSE \/ elems[k].opt /\ MatchFrom(elems, k + 1, text, pos)
       \/ \E a \in elems[k].alts :
            /\ HasAt(text, pos, a)
            /\ MatchFrom(elems, k + 1, text, pos + Len(a))

FoldElem(e) == [opt |-> e.opt, alts |-> {toLowerCase(a) : a \in e.alts}]

\* RegExp.prototype.test
RegExpTest(re, text) ==
  LET t == IF re.ignoreCase THEN toLowerCase(text) ELSE text
  IN \E p \in 1..(Len(t) + 1) : MatchFrom(re.elems, 1, t, p)

\* the characters escapeRegex escapes: .*+?^${}()|[]\
RegexSpecialChars == {".","*","+","?","^","$","{","}","(",")","|","[","]","\\"}

\* text.replace(/[.*+?^${}()|[\]\\]/g, '\\$&')
RECURSIVE escapeRegex(_)
escapeRegex(text) ==
  IF text = <<>> THEN <<>>
  ELSE (IF Head(text) \in RegexSpecialChars THEN <<"\\", Head(text)>> ELSE <<Head(text)>>)
       \o escapeRegex(Tail(text))

(***************************************************************************)
(* new RegExp(source, flags).  The result is [ok, re]; ok = FALSE is the   *)
(* SyntaxError the constructor throws.                                     *)
(*  - "(?" not followed by ":", "=", "!" or "<" is "Invalid group":        *)
(*    ECMAScript has no inline flag group, so "(?i)..." does not compile.  *)
(*  - a source made of plain characters and backslash-escaped special      *)
(*    characters (what escapeRegex produces) compiles to one literal.      *)
(*  - any other unescaped special character is outside the fragment the    *)
(*    engines build patterns from; such a source is reported as not        *)
(*    compiling.                                                           *)
(***************************************************************************)
RECURSIVE UnescapeLiteral(_)
UnescapeLiteral(src) ==
  IF src = <<>> THEN [ok |-> TRUE, lit |-> <<>>]
  ELSE IF Head(src) = "\\" THEN
         (IF Len(src) < 2 THEN [ok |-> FALSE, lit |-> <<>>]
          ELSE LET r == UnescapeLiteral(SubSeq(src, 3, Len(src))) IN
               [ok |-> r.ok, lit |-> <<src[2]>> \o r.lit])
  ELSE IF Head(src) \in RegexSpecialChars THEN [ok |-> FALSE, lit |-> <<>>]
  ELSE LET r == UnescapeLiteral(Tail(src)) IN
       [ok |-> r.ok, lit |-> <<Head(src)>> \o r.lit]

NoRegExp == [ignoreCase |-> FALSE, elems |-> <<>>]

InvalidGroup(src) ==
  /\ HasAt(src, 1, <<"(", "?">>)
  /\ (Len(src) < 3 \/ src[3] \notin {":", "=", "!", "<"})

NewRegExp(src, ignoreCase) ==
  LET u == UnescapeLiteral(src) IN
  IF InvalidGroup(src) THEN [ok |-> FALSE, re |-> NoRegExp]
  ELSE IF u.ok
  THEN [ok |-> TRUE,
        re |-> [ignoreCase |-> ignoreCase,
                elems |-> IF u.lit = <<>> THEN <<>>
                          ELSE IF ignoreCase
                          THEN <<FoldElem([opt |-> FALSE, alts |-> {u.lit}])>>
                          ELSE <<[opt |-> FALSE, alts |-> {u.lit}]>>]]
  ELSE [ok |-> FALSE, re |-> NoRegExp]

(***************************************************************************)
(* Program data                                                            *)
(***************************************************************************)
\* The array-valued entries of the slot palette, in Object.entries order; subKey is
\* empty for an array directly under the group (Mouth.viseme).
slotPaletteArrays ==
  <<
    [group |-> <<"E","y","e","s">>, slotName |-> <<"E","y","e","L">>, subKey |-> <<"s","t","a","t","e">>,
     values |-> {<<"o","p","e","n">>, <<"h","a","l","f">>, <<"c","l","o","s","e","d">>}],
    [group |-> <<"E","y","e","s">>, slotName |-> <<"E","y","e","R">>, subKey |-> <<"s","t","a","t","e">>,
     values |-> {<<"o","p","e","n">>, <<"h","a","l","f">>, <<"c","l","o","s","e","d">>}],
    [group |-> <<"E","y","e","s">>, slotName |-> <<"B","r","o","w","L">>, subKey |-> <<"s","h","a","p","e">>,
     values |-> {<<"n","e","u","t","r","a","l">>, <<"u","p">>, <<"d","o","w","n">>, <<"a","n","g","r","y">>, <<"s","a","d">>}],
    [group |-> <<"E","y","e","s">>, slotName |-> <<"B","r","o","w","R">>, subKey |-> <<"s","h","a","p","e">>,
     values |-> {<<"n","e","u","t","r","a","l">>, <<"u","p">>, <<"d","o","w","n">>, <<"a","n","g","r","y">>, <<"s","a","d">>}],
    [group |-> <<"M","o","u","t","h">>, slotName |-> <<"v","i","s","e","m","e">>, subKey |-> <<>>,
     values |-> {<<"R","E","S","T">>, <<"A","I">>, <<"E">>, <<"U">>, <<"O">>, <<"F","V">>, <<"L">>, <<"W","Q">>, <<"M","B","P">>, <<"S","I","L">>}],
    [group |-> <<"M","o","u","t","h">>, slotName |-> <<"e","m","o","t","i","o","n">>, subKey |-> <<>>,
     values |-> {<<"n","e","u","t","r","a","l">>, <<"s","m","i","l","e">>, <<"f","r","o","w","n">>, <<"a","n","g","r","y">>, <<"s","a","d">>, <<"j","o","y">>}]
  >>

\* The slices of the model: the four of the example scenario, a layer "Body" inside a
\* group "Mouth E", a layer no bootstrap rule names, and a one-letter layer.
SlicePool ==
  <<
    [id |-> 1, name |-> <<"M","o","u","t","h","/","A">>,
     psdPath |-> <<"M","o","u","t","h","/","A">>],   \* Mouth/A @ Mouth/A
    [id |-> 2, name |-> <<"E","y","e"," ","L"," ","O","p","e","n">>,
     psdPath |-> <<"F","a","c","e","/","E","y","e","s","/","E","y","e"," ","L"," ","O","p","e","n">>],   \* Eye L Open @ Face/Eyes/Eye L Open
    [id |-> 3, name |-> <<"E","y","e"," ","R"," ","O","p","e","n">>,
     psdPath |-> <<"F","a","c","e","/","E","y","e","s","/","E","y","e"," ","R"," ","O","p","e","n">>],   \* Eye R Open @ Face/Eyes/Eye R Open
    [id |-> 4, name |-> <<"H","a","i","r"," ","F","r","o","n","t">>,
     psdPath |-> <<"H","a","i","r"," ","F","r","o","n","t">>],   \* Hair Front @ Hair Front
    [id |-> 5, name |-> <<"B","o","d","y">>,
     psdPath |-> <<"M","o","u","t","h"," ","E","/","B","o","d","y">>],   \* Body @ Mouth E/Body
    [id |-> 6, name |-> <<"F","r","i","n","g","e","+">>,
     psdPath |-> <<"E","x","t","r","a","s","/","F","r","i","n","g","e","+">>],   \* Fringe+ @ Extras/Fringe+
    [id |-> 7, name |-> <<"A">>,
     psdPath |-> <<"F","a","c","e","/","M","o","u","t","h","/","A">>]   \* A @ Face/Mouth/A
  >>

P_MouthAI == <<"M","o","u","t","h","/","v","i","s","e","m","e","/","A","I">>   \* Mouth/viseme/AI
P_MouthE == <<"M","o","u","t","h","/","v","i","s","e","m","e","/","E">>   \* Mouth/viseme/E
P_EyeLOpen == <<"E","y","e","s","/","E","y","e","L","/","s","t","a","t","e","/","o","p","e","n">>   \* Eyes/EyeL/state/open
P_EyeROpen == <<"E","y","e","s","/","E","y","e","R","/","s","t","a","t","e","/","o","p","e","n">>   \* Eyes/EyeR/state/open
P_HairFront == <<"H","a","i","r","/","f","r","o","n","t">>   \* Hair/front
P_HairBack == <<"H","a","i","r","/","b","a","c","k">>   \* Hair/back
P_BodyTorso == <<"B","o","d","y","/","t","o","r","s","o">>   \* Body/torso
P_FXSparkles == <<"F","X","/","s","p","a","r","k","l","e","s">>   \* FX/sparkles
P_Body == <<"B","o","d","y">>   \* Body
P_Hairband == <<"H","a","i","r","b","a","n","d","/","x">>   \* Hairband/x
P_BodyArms == <<"B","o","d","y","/","a","r","m","s">>   \* Body/arms

\* DrawOrder.DEFAULT_PATTERNS
DEFAULT_PATTERNS ==
  <<
    <<"B","o","d","y","/","*">>,
    <<"H","e","a","d","/","*">>,
    <<"H","a","i","r","/","b","a","c","k">>,
    <<"E","y","e","s","/","*">>,
    <<"B","r","o","w","s","/","*">>,
    <<"M","o","u","t","h","/","*">>,
    <<"N","o","s","e","/","*">>,
    <<"C","h","e","e","k","/","*">>,
    <<"H","a","i","r","/","f","r","o","n","t">>,
    <<"A","c","c","e","s","s","o","r","i","e","s","/","*">>,
    <<"F","X","/","*">>
  >>

\* ---- AutoMappingService.rules (src/unnamed/part_007:15-47) ----
ServiceBootstrapRules ==
  <<
    \* line 17: /mouth[_ -]?a[_ -]?i?/i -> Mouth/viseme/AI
    [pattern |-> [ignoreCase |-> TRUE, elems |-> <<[opt |-> FALSE, alts |-> {<<"m","o","u","t","h">>}], [opt |-> TRUE, alts |-> {<<"_">>, <<" ">>, <<"-">>}], [opt |-> FALSE, alts |-> {<<"a">>}], [opt |-> TRUE, alts |-> {<<"_">>, <<" ">>, <<"-">>}], [opt |-> TRUE, alts |-> {<<"i">>}]>>],
     slotPath |-> <<"M","o","u","t","h","/","v","i","s","e","m","e","/","A","I">>, confidence |-> 9000],
    \* line 18: /mouth[_ -]?e/i -> Mouth/viseme/E
    [pattern |-> [ignoreCase |-> TRUE, elems |-> <<[opt |-> FALSE, alts |-> {<<"m","o","u","t","h">>}], [opt |-> TRUE, alts |-> {<<"_">>, <<" ">>, <<"-">>}], [opt |-> FALSE, alts |-> {<<"e">>}]>>],
     slotPath |-> <<"M","o","u","t","h","/","v","i","s","e","m","e","/","E">>, confidence |-> 9000],
    \* line 19: /mouth[_ -]?u/i -> Mouth/viseme/U
    [pattern |-> [ignoreCase |-> TRUE, elems |-> <<[opt |-> FALSE, alts |-> {<<"m","o","u","t","h">>}], [opt |-> TRUE, alts |-> {<<"_">>, <<" ">>, <<"-">>}], [opt |-> FALSE, alts |-> {<<"u">>}]>>],
     slotPath |-> <<"M","o","u","t","h","/","v","i","s","e","m","e","/","U">>, confidence |-> 9000],
    \* line 20: /mouth[_ -]?o/i -> Mouth/viseme/O
    [pattern |-> [ignoreCase |-> TRUE, elems |-> <<[opt |-> FALSE, alts |-> {<<"m","o","u","t","h">>}], [opt |-> TRUE, alts |-> {<<"_">>, <<" ">>, <<"-">>}], [opt |-> FALSE, alts |-> {<<"o">>}]>>],
     slotPath |-> <<"M","o","u","t","h","/","v","i","s","e","m","e","/","O">>, confidence |-> 9000],
    \* line 21: /mouth[_ -]?(rest|normal|neutral)/i -> Mouth/viseme/REST
    [pattern |-> [ignoreCase |-> TRUE, elems |-> <<[opt |-> FALSE, alts |-> {<<"m","o","u","t","h">>}], [opt |-> TRUE, alts |-> {<<"_">>, <<" ">>, <<"-">>}], [opt |-> FALSE, alts |-> {<<"r","e","s","t">>, <<"n","o","r","m","a","l">>, <<"n","e","u","t","r","a","l">>}]>>],
     slotPath |-> <<"M","o","u","t","h","/","v","i","s","e","m","e","/","R","E","S","T">>, confidence |-> 9000],
    \* line 22: /mouth[_ -]?(f|v)/i -> Mouth/viseme/FV
    [pattern |-> [ignoreCase |-> TRUE, elems |-> <<[opt |-> FALSE, alts |-> {<<"m","o","u","t","h">>}], [opt |-> TRUE, alts |-> {<<"_">>, <<" ">>, <<"-">>}], [opt |-> FALSE, alts |-> {<<"f">>, <<"v">>}]>>],
     slotPath |-> <<"M","o","u","t","h","/","v","i","s","e","m","e","/","F","V">>, confidence |-> 9000],
    \* line 23: /mouth[_ -]?l/i -> Mouth/viseme/L
    [pattern |-> [ignoreCase |-> TRUE, elems |-> <<[opt |-> FALSE, alts |-> {<<"m","o","u","t","h">>}], [opt |-> TRUE, alts |-> {<<"_">>, <<" ">>, <<"-">>}], [opt |-> FALSE, alts |-> {<<"l">>}]>>],
     slotPath |-> <<"M","o","u","t","h","/","v","i","s","e","m","e","/","L">>, confidence |-> 9000],
    \* line 24: /mouth[_ -]?(w|q)/i -> Mouth/viseme/WQ
    [pattern |-> [ignoreCase |-> TRUE, elems |-> <<[opt |-> FALSE, alts |-> {<<"m","o","u","t","h">>}], [opt |-> TRUE, alts |-> {<<"_">>, <<" ">>, <<"-">>}], [opt |-> FALSE, alts |-> {<<"w">>, <<"q">>}]>>],
     slotPath |-> <<"M","o","u","t","h","/","v","i","s","e","m","e","/","W","Q">>, confidence |-> 9000],
    \* line 25: /mouth[_ -]?(m|b|p)/i -> Mouth/viseme/MBP
    [pattern |-> [ignoreCase |-> TRUE, elems |-> <<[opt |-> FALSE, alts |-> {<<"m","o","u","t","h">>}], [opt |-> TRUE, alts |-> {<<"_">>, <<" ">>, <<"-">>}], [opt |-> FALSE, alts |-> {<<"m">>, <<"b">>, <<"p">>}]>>],
     slotPath |-> <<"M","o","u","t","h","/","v","i","s","e","m","e","/","M","B","P">>, confidence |-> 9000],
    \* line 28: /eye[_ -]?l[_ -]?(open|normal)/i -> Eyes/EyeL/state/open
    [pattern |-> [ignoreCase |-> TRUE, elems |-> <<[opt |-> FALSE, alts |-> {<<"e","y","e">>}], [opt |-> TRUE, alts |-> {<<"_">>, <<" ">>, <<"-">>}], [opt |-> FALSE, alts |-> {<<"l">>}], [opt |-> TRUE, alts |-> {<<"_">>, <<" ">>, <<"-">>}], [opt |-> FALSE, alts |-> {<<"o","p","e","n">>, <<"n","o","r","m","a","l">>}]>>],
     slotPath |-> <<"E","y","e","s","/","E","y","e","L","/","s","t","a","t","e","/","o","p","e","n">>, confidence |-> 9000],
    \* line 29: /eye[_ -]?r[_ -]?(open|normal)/i -> Eyes/EyeR/state/open
    [pattern |-> [ignoreCase |-> TRUE, elems |-> <<[opt |-> FALSE, alts |-> {<<"e","y","e">>}], [opt |-> TRUE, alts |-> {<<"_">>, <<" ">>, <<"-">>}], [opt |-> FALSE, alts |-> {<<"r">>}], [opt |-> TRUE, alts |-> {<<"_">>, <<" ">>, <<"-">>}], [opt |-> FALSE, alts |-> {<<"o","p","e","n">>, <<"n","o","r","m","a","l">>}]>>],
     slotPath |-> <<"E","y","e","s","/","E","y","e","R","/","s","t","a","t","e","/","o","p","e","n">>, confidence |-> 9000],
    \* line 30: /eye[_ -]?l[_ -]?half/i -> Eyes/EyeL/state/half
    [pattern |-> [ignoreCase |-> TRUE, elems |-> <<[opt |-> FALSE, alts |-> {<<"e","y","e">>}], [opt |-> TRUE, alts |-> {<<"_">>, <<" ">>, <<"-">>}], [opt |-> FALSE, alts |-> {<<"l">>}], [opt |-> TRUE, alts |-> {<<"_">>, <<" ">>, <<"-">>}], [opt |-> FALSE, alts |-> {<<"h","a","l","f">>}]>>],
     slotPath |-> <<"E","y","e","s","/","E","y","e","L","/","s","t","a","t","e","/","h","a","l","f">>, confidence |-> 9000],
    \* line 31: /eye[_ -]?r[_ -]?half/i -> Eyes/EyeR/state/half
    [pattern |-> [ignoreCase |-> TRUE, elems |-> <<[opt |-> FALSE, alts |-> {<<"e","y","e">>}], [opt |-> TRUE, alts |-> {<<"_">>, <<" ">>, <<"-">>}], [opt |-> FALSE, alts |-> {<<"r">>}], [opt |-> TRUE, alts |-> {<<"_">>, <<" ">>, <<"-">>}], [opt |-> FALSE, alts |-> {<<"h","a","l","f">>}]>>],
     slotPath |-> <<"E","y","e","s","/","E","y","e","R","/","s","t","a","t","e","/","h","a","l","f">>, confidence |-> 9000],
    \* line 32: /eye[_ -]?l[_ -]?closed/i -> Eyes/EyeL/state/closed
    [pattern |-> [ignoreCase |-> TRUE, elems |-> <<[opt |-> FALSE, alts |-> {<<"e","y","e">>}], [opt |-> TRUE, alts |-> {<<"_">>, <<" ">>, <<"-">>}], [opt |-> FALSE, alts |-> {<<"l">>}], [opt |-> TRUE, alts |-> {<<"_">>, <<" ">>, <<"-">>}], [opt |-> FALSE, alts |-> {<<"c","l","o","s","e","d">>}]>>],
     slotPath |-> <<"E","y","e","s","/","E","y","e","L","/","s","t","a","t","e","/","c","l","o","s","e","d">>, confidence |-> 9000],
    \* line 33: /eye[_ -]?r[_ -]?closed/i -> Eyes/EyeR/state/closed
    [pattern |-> [ignoreCase |-> TRUE, elems |-> <<[opt |-> FALSE, alts |-> {<<"e","y","e">>}], [opt |-> TRUE, alts |-> {<<"_">>, <<" ">>, <<"-">>}], [opt |-> FALSE, alts |-> {<<"r">>}], [opt |-> TRUE, alts |-> {<<"_">>, <<" ">>, <<"-">>}], [opt |-> FALSE, alts |-> {<<"c","l","o","s","e","d">>}]>>],
     slotPath |-> <<"E","y","e","s","/","E","y","e","R","/","s","t","a","t","e","/","c","l","o","s","e","d">>, confidence |-> 9000],
    \* line 36: /hair[/ _-]?(front|bangs)/i -> Hair/front
    [pattern |-> [ignoreCase |-> TRUE, elems |-> <<[opt |-> FALSE, alts |-> {<<"h","a","i","r">>}], [opt |-> TRUE, alts |-> {<<"/">>, <<" ">>, <<"_">>, <<"-">>}], [opt |-> FALSE, alts |-> {<<"f","r","o","n","t">>, <<"b","a","n","g","s">>}]>>],
     slotPath |-> <<"H","a","i","r","/","f","r","o","n","t">>, confidence |-> 8000],
    \* line 37: /hair[/ _-]?back/i -> Hair/back
    [pattern |-> [ignoreCase |-> TRUE, elems |-> <<[opt |-> FALSE, alts |-> {<<"h","a","i","r">>}], [opt |-> TRUE, alts |-> {<<"/">>, <<" ">>, <<"_">>, <<"-">>}], [opt |-> FALSE, alts |-> {<<"b","a","c","k">>}]>>],
     slotPath |-> <<"H","a","i","r","/","b","a","c","k">>, confidence |-> 8000],
    \* line 40: /(body|torso)/i -> Body/torso
    [pattern |-> [ignoreCase |-> TRUE, elems |-> <<[opt |-> FALSE, alts |-> {<<"b","o","d","y">>, <<"t","o","r","s","o">>}]>>],
     slotPath |-> <<"B","o","d","y","/","t","o","r","s","o">>, confidence |-> 8000],
    \* line 41: /arms?/i -> Body/arms
    [pattern |-> [ignoreCase |-> TRUE, elems |-> <<[opt |-> FALSE, alts |-> {<<"a","r","m">>}], [opt |-> TRUE, alts |-> {<<"s">>}]>>],
     slotPath |-> <<"B","o","d","y","/","a","r","m","s">>, confidence |-> 8000],
    \* line 42: /legs?/i -> Body/legs
    [pattern |-> [ignoreCase |-> TRUE, elems |-> <<[opt |-> FALSE, alts |-> {<<"l","e","g">>}], [opt |-> TRUE, alts |-> {<<"s">>}]>>],
     slotPath |-> <<"B","o","d","y","/","l","e","g","s">>, confidence |-> 8000],
    \* line 45: /head[_ -]?(base|main)/i -> Head/base
    [pattern |-> [ignoreCase |-> TRUE, elems |-> <<[opt |-> FALSE, alts |-> {<<"h","e","a","d">>}], [opt |-> TRUE, alts |-> {<<"_">>, <<" ">>, <<"-">>}], [opt |-> FALSE, alts |-> {<<"b","a","s","e">>, <<"m","a","i","n">>}]>>],
     slotPath |-> <<"H","e","a","d","/","b","a","s","e">>, confidence |-> 8000],
    \* line 46: /neck/i -> Head/neck
    [pattern |-> [ignoreCase |-> TRUE, elems |-> <<[opt |-> FALSE, alts |-> {<<"n","e","c","k">>}]>>],
     slotPath |-> <<"H","e","a","d","/","n","e","c","k">>, confidence |-> 8000]
  >>

\* ---- AutoMapper.getDefaultRules (src/avatar-ui/src/SimpleApp.tsx:71-146) ----
getDefaultRules ==
  <<
    \* line 74: "(?i)mouth[_ -]?a[_ -]?i?"
    [match |-> <<"(","?","i",")","m","o","u","t","h","[","_"," ","-","]","?","a","[","_"," ","-","]","?","i","?">>,
     map |-> [group |-> <<"M","o","u","t","h">>, slot |-> <<"M","o","u","t","h","/","v","i","s","e","m","e","/","A","I">>]],
    \* line 75: "(?i)mouth[_ -]?e"
    [match |-> <<"(","?","i",")","m","o","u","t","h","[","_"," ","-","]","?","e">>,
     map |-> [group |-> <<"M","o","u","t","h">>, slot |-> <<"M","o","u","t","h","/","v","i","s","e","m","e","/","E">>]],
    \* line 76: "(?i)mouth[_ -]?u"
    [match |-> <<"(","?","i",")","m","o","u","t","h","[","_"," ","-","]","?","u">>,
     map |-> [group |-> <<"M","o","u","t","h">>, slot |-> <<"M","o","u","t","h","/","v","i","s","e","m","e","/","U">>]],
    \* line 77: "(?i)mouth[_ -]?o"
    [match |-> <<"(","?","i",")","m","o","u","t","h","[","_"," ","-","]","?","o">>,
     map |-> [group |-> <<"M","o","u","t","h">>, slot |-> <<"M","o","u","t","h","/","v","i","s","e","m","e","/","O">>]],
    \* line 78: "(?i)mouth[_ -]?(rest|normal|neutral)"
    [match |-> <<"(","?","i",")","m","o","u","t","h","[","_"," ","-","]","?","(","r","e","s","t","|","n","o","r","m","a","l","|","n","e","u","t","r","a","l",")">>,
     map |-> [group |-> <<"M","o","u","t","h">>, slot |-> <<"M","o","u","t","h","/","v","i","s","e","m","e","/","R","E","S","T">>]],
    \* line 79: "(?i)mouth[_ -]?(f|v)"
    [match |-> <<"(","?","i",")","m","o","u","t","h","[","_"," ","-","]","?","(","f","|","v",")">>,
     map |-> [group |-> <<"M","o","u","t","h">>, slot |-> <<"M","o","u","t","h","/","v","i","s","e","m","e","/","F","V">>]],
    \* line 80: "(?i)mouth[_ -]?l"
    [match |-> <<"(","?","i",")","m","o","u","t","h","[","_"," ","-","]","?","l">>,
     map |-> [group |-> <<"M","o","u","t","h">>, slot |-> <<"M","o","u","t","h","/","v","i","s","e","m","e","/","L">>]],
    \* line 81: "(?i)mouth[_ -]?(w|q)"
    [match |-> <<"(","?","i",")","m","o","u","t","h","[","_"," ","-","]","?","(","w","|","q",")">>,
     map |-> [group |-> <<"M","o","u","t","h">>, slot |-> <<"M","o","u","t","h","/","v","i","s","e","m","e","/","W","Q">>]],
    \* line 82: "(?i)mouth[_ -]?(m|b|p)"
    [match |-> <<"(","?","i",")","m","o","u","t","h","[","_"," ","-","]","?","(","m","|","b","|","p",")">>,
     map |-> [group |-> <<"M","o","u","t","h">>, slot |-> <<"M","o","u","t","h","/","v","i","s","e","m","e","/","M","B","P">>]],
    \* line 83: "(?i)mouth[_ -]?(sil|silent)"
    [match |-> <<"(","?","i",")","m","o","u","t","h","[","_"," ","-","]","?","(","s","i","l","|","s","i","l","e","n","t",")">>,
     map |-> [group |-> <<"M","o","u","t","h">>, slot |-> <<"M","o","u","t","h","/","v","i","s","e","m","e","/","S","I","L">>]],
    \* line 86: "(?i)mouth[_ -]?(smile|happy)"
    [match |-> <<"(","?","i",")","m","o","u","t","h","[","_"," ","-","]","?","(","s","m","i","l","e","|","h","a","p","p","y",")">>,
     map |-> [group |-> <<"M","o","u","t","h">>, slot |-> <<"M","o","u","t","h","/","e","m","o","t","i","o","n","/","s","m","i","l","e">>]],
    \* line 87: "(?i)mouth[_ -]?(frown|sad)"
    [match |-> <<"(","?","i",")","m","o","u","t","h","[","_"," ","-","]","?","(","f","r","o","w","n","|","s","a","d",")">>,
     map |-> [group |-> <<"M","o","u","t","h">>, slot |-> <<"M","o","u","t","h","/","e","m","o","t","i","o","n","/","f","r","o","w","n">>]],
    \* line 88: "(?i)mouth[_ -]?angry"
    [match |-> <<"(","?","i",")","m","o","u","t","h","[","_"," ","-","]","?","a","n","g","r","y">>,
     map |-> [group |-> <<"M","o","u","t","h">>, slot |-> <<"M","o","u","t","h","/","e","m","o","t","i","o","n","/","a","n","g","r","y">>]],
    \* line 89: "(?i)mouth[_ -]?joy"
    [match |-> <<"(","?","i",")","m","o","u","t","h","[","_"," ","-","]","?","j","o","y">>,
     map |-> [group |-> <<"M","o","u","t","h">>, slot |-> <<"M","o","u","t","h","/","e","m","o","t","i","o","n","/","j","o","y">>]],
    \* line 92: "(?i)eye[_ -]?l[_ -]?(open|normal)"
    [match |-> <<"(","?","i",")","e","y","e","[","_"," ","-","]","?","l","[","_"," ","-","]","?","(","o","p","e","n","|","n","o","r","m","a","l",")">>,
     map |-> [group |-> <<"E","y","e","s">>, slot |-> <<"E","y","e","s","/","E","y","e","L","/","s","t","a","t","e","/","o","p","e","n">>]],
    \* line 93: "(?i)eye[_ -]?r[_ -]?(open|normal)"
    [match |-> <<"(","?","i",")","e","y","e","[","_"," ","-","]","?","r","[","_"," ","-","]","?","(","o","p","e","n","|","n","o","r","m","a","l",")">>,
     map |-> [group |-> <<"E","y","e","s">>, slot |-> <<"E","y","e","s","/","E","y","e","R","/","s","t","a","t","e","/","o","p","e","n">>]],
    \* line 94: "(?i)eye[_ -]?l[_ -]?half"
    [match |-> <<"(","?","i",")","e","y","e","[","_"," ","-","]","?","l","[","_"," ","-","]","?","h","a","l","f">>,
     map |-> [group |-> <<"E","y","e","s">>, slot |-> <<"E","y","e","s","/","E","y","e","L","/","s","t","a","t","e","/","h","a","l","f">>]],
    \* line 95: "(?i)eye[_ -]?r[_ -]?half"
    [match |-> <<"(","?","i",")","e","y","e","[","_"," ","-","]","?","r","[","_"," ","-","]","?","h","a","l","f">>,
     map |-> [group |-> <<"E","y","e","s">>, slot |-> <<"E","y","e","s","/","E","y","e","R","/","s","t","a","t","e","/","h","a","l","f">>]],
    \* line 96: "(?i)eye[_ -]?l[_ -]?closed"
    [match |-> <<"(","?","i",")","e","y","e","[","_"," ","-","]","?","l","[","_"," ","-","]","?","c","l","o","s","e","d">>,
     map |-> [group |-> <<"E","y","e","s">>, slot |-> <<"E","y","e","s","/","E","y","e","L","/","s","t","a","t","e","/","c","l","o","s","e","d">>]],
    \* line 97: "(?i)eye[_ -]?r[_ -]?closed"
    [match |-> <<"(","?","i",")","e","y","e","[","_"," ","-","]","?","r","[","_"," ","-","]","?","c","l","o","s","e","d">>,
     map |-> [group |-> <<"E","y","e","s">>, slot |-> <<"E","y","e","s","/","E","y","e","R","/","s","t","a","t","e","/","c","l","o","s","e","d">>]],
    \* line 98: "(?i)iris[_ -]?l"
    [match |-> <<"(","?","i",")","i","r","i","s","[","_"," ","-","]","?","l">>,
     map |-> [group |-> <<"E","y","e","s">>, slot |-> <<"E","y","e","s","/","I","r","i","s","L">>]],
    \* line 99: "(?i)iris[_ -]?r"
    [match |-> <<"(","?","i",")","i","r","i","s","[","_"," ","-","]","?","r">>,
     map |-> [group |-> <<"E","y","e","s">>, slot |-> <<"E","y","e","s","/","I","r","i","s","R">>]],
    \* line 102: "(?i)brow[_ -]?l[_ -]?(neutral|normal)"
    [match |-> <<"(","?","i",")","b","r","o","w","[","_"," ","-","]","?","l","[","_"," ","-","]","?","(","n","e","u","t","r","a","l","|","n","o","r","m","a","l",")">>,
     map |-> [group |-> <<"E","y","e","s">>, slot |-> <<"E","y","e","s","/","B","r","o","w","L","/","s","h","a","p","e","/","n","e","u","t","r","a","l">>]],
    \* line 103: "(?i)brow[_ -]?r[_ -]?(neutral|normal)"
    [match |-> <<"(","?","i",")","b","r","o","w","[","_"," ","-","]","?","r","[","_"," ","-","]","?","(","n","e","u","t","r","a","l","|","n","o","r","m","a","l",")">>,
     map |-> [group |-> <<"E","y","e","s">>, slot |-> <<"E","y","e","s","/","B","r","o","w","R","/","s","h","a","p","e","/","n","e","u","t","r","a","l">>]],
    \* line 104: "(?i)brow[_ -]?l[_ -]?up"
    [match |-> <<"(","?","i",")","b","r","o","w","[","_"," ","-","]","?","l","[","_"," ","-","]","?","u","p">>,
     map |-> [group |-> <<"E","y","e","s">>, slot |-> <<"E","y","e","s","/","B","r","o","w","L","/","s","h","a","p","e","/","u","p">>]],
    \* line 105: "(?i)brow[_ -]?r[_ -]?up"
    [match |-> <<"(","?","i",")","b","r","o","w","[","_"," ","-","]","?","r","[","_"," ","-","]","?","u","p">>,
     map |-> [group |-> <<"E","y","e","s">>, slot |-> <<"E","y","e","s","/","B","r","o","w","R","/","s","h","a","p","e","/","u","p">>]],
    \* line 106: "(?i)brow[_ -]?l[_ -]?down"
    [match |-> <<"(","?","i",")","b","r","o","w","[","_"," ","-","]","?","l","[","_"," ","-","]","?","d","o","w","n">>,
     map |-> [group |-> <<"E","y","e","s">>, slot |-> <<"E","y","e","s","/","B","r","o","w","L","/","s","h","a","p","e","/","d","o","w","n">>]],
    \* line 107: "(?i)brow[_ -]?r[_ -]?down"
    [match |-> <<"(","?","i",")","b","r","o","w","[","_"," ","-","]","?","r","[","_"," ","-","]","?","d","o","w","n">>,
     map |-> [group |-> <<"E","y","e","s">>, slot |-> <<"E","y","e","s","/","B","r","o","w","R","/","s","h","a","p","e","/","d","o","w","n">>]],
    \* line 108: "(?i)brow[_ -]?l[_ -]?angry"
    [match |-> <<"(","?","i",")","b","r","o","w","[","_"," ","-","]","?","l","[","_"," ","-","]","?","a","n","g","r","y">>,
     map |-> [group |-> <<"E","y","e","s">>, slot |-> <<"E","y","e","s","/","B","r","o","w","L","/","s","h","a","p","e","/","a","n","g","r","y">>]],
    \* line 109: "(?i)brow[_ -]?r[_ -]?angry"
    [match |-> <<"(","?","i",")","b","r","o","w","[","_"," ","-","]","?","r","[","_"," ","-","]","?","a","n","g","r","y">>,
     map |-> [group |-> <<"E","y","e","s">>, slot |-> <<"E","y","e","s","/","B","r","o","w","R","/","s","h","a","p","e","/","a","n","g","r","y">>]],
    \* line 110: "(?i)brow[_ -]?l[_ -]?sad"
    [match |-> <<"(","?","i",")","b","r","o","w","[","_"," ","-","]","?","l","[","_"," ","-","]","?","s","a","d">>,
     map |-> [group |-> <<"E","y","e","s">>, slot |-> <<"E","y","e","s","/","B","r","o","w","L","/","s","h","a","p","e","/","s","a","d">>]],
    \* line 111: "(?i)brow[_ -]?r[_ -]?sad"
    [match |-> <<"(","?","i",")","b","r","o","w","[","_"," ","-","]","?","r","[","_"," ","-","]","?","s","a","d">>,
     map |-> [group |-> <<"E","y","e","s">>, slot |-> <<"E","y","e","s","/","B","r","o","w","R","/","s","h","a","p","e","/","s","a","d">>]],
    \* line 114: "(?i)hair[/ _-]?(front|bangs)"
    [match |-> <<"(","?","i",")","h","a","i","r","[","/"," ","_","-","]","?","(","f","r","o","n","t","|","b","a","n","g","s",")">>,
     map |-> [group |-> <<"H","a","i","r">>, slot |-> <<"H","a","i","r","/","f","r","o","n","t">>]],
    \* line 115: "(?i)hair[/ _-]?back"
    [match |-> <<"(","?","i",")","h","a","i","r","[","/"," ","_","-","]","?","b","a","c","k">>,
     map |-> [group |-> <<"H","a","i","r">>, slot |-> <<"H","a","i","r","/","b","a","c","k">>]],
    \* line 116: "(?i)hair[/ _-]?mid"
    [match |-> <<"(","?","i",")","h","a","i","r","[","/"," ","_","-","]","?","m","i","d">>,
     map |-> [group |-> <<"H","a","i","r">>, slot |-> <<"H","a","i","r","/","m","i","d">>]],
    \* line 117: "(?i)hair[/ _-]?accessory"
    [match |-> <<"(","?","i",")","h","a","i","r","[","/"," ","_","-","]","?","a","c","c","e","s","s","o","r","y">>,
     map |-> [group |-> <<"H","a","i","r">>, slot |-> <<"H","a","i","r","/","a","c","c","e","s","s","o","r","y">>]],
    \* line 120: "(?i)(body|torso)"
    [match |-> <<"(","?","i",")","(","b","o","d","y","|","t","o","r","s","o",")">>,
     map |-> [group |-> <<"B","o","d","y">>, slot |-> <<"B","o","d","y","/","t","o","r","s","o">>]],
    \* line 121: "(?i)arms?"
    [match |-> <<"(","?","i",")","a","r","m","s","?">>,
     map |-> [group |-> <<"B","o","d","y">>, slot |-> <<"B","o","d","y","/","a","r","m","s">>]],
    \* line 122: "(?i)legs?"
    [match |-> <<"(","?","i",")","l","e","g","s","?">>,
     map |-> [group |-> <<"B","o","d","y">>, slot |-> <<"B","o","d","y","/","l","e","g","s">>]],
    \* line 125: "(?i)head[_ -]?(base|main)"
    [match |-> <<"(","?","i",")","h","e","a","d","[","_"," ","-","]","?","(","b","a","s","e","|","m","a","i","n",")">>,
     map |-> [group |-> <<"H","e","a","d">>, slot |-> <<"H","e","a","d","/","b","a","s","e">>]],
    \* line 126: "(?i)neck"
    [match |-> <<"(","?","i",")","n","e","c","k">>,
     map |-> [group |-> <<"H","e","a","d">>, slot |-> <<"H","e","a","d","/","n","e","c","k">>]],
    \* line 129: "(?i)nose[_ -]?(base|main)"
    [match |-> <<"(","?","i",")","n","o","s","e","[","_"," ","-","]","?","(","b","a","s","e","|","m","a","i","n",")">>,
     map |-> [group |-> <<"N","o","s","e">>, slot |-> <<"N","o","s","e","/","b","a","s","e">>]],
    \* line 130: "(?i)nose[_ -]?shadow"
    [match |-> <<"(","?","i",")","n","o","s","e","[","_"," ","-","]","?","s","h","a","d","o","w">>,
     map |-> [group |-> <<"N","o","s","e">>, slot |-> <<"N","o","s","e","/","s","h","a","d","o","w">>]],
    \* line 133: "(?i)cheek[_ -]?blush"
    [match |-> <<"(","?","i",")","c","h","e","e","k","[","_"," ","-","]","?","b","l","u","s","h">>,
     map |-> [group |-> <<"C","h","e","e","k">>, slot |-> <<"C","h","e","e","k","/","b","l","u","s","h">>]],
    \* line 134: "(?i)cheek[_ -]?shadow"
    [match |-> <<"(","?","i",")","c","h","e","e","k","[","_"," ","-","]","?","s","h","a","d","o","w">>,
     map |-> [group |-> <<"C","h","e","e","k">>, slot |-> <<"C","h","e","e","k","/","s","h","a","d","o","w">>]],
    \* line 137: "(?i)glasses"
    [match |-> <<"(","?","i",")","g","l","a","s","s","e","s">>,
     map |-> [group |-> <<"A","c","c","e","s","s","o","r","i","e","s">>, slot |-> <<"A","c","c","e","s","s","o","r","i","e","s","/","g","l","a","s","s","e","s">>]],
    \* line 138: "(?i)earrings?"
    [match |-> <<"(","?","i",")","e","a","r","r","i","n","g","s","?">>,
     map |-> [group |-> <<"A","c","c","e","s","s","o","r","i","e","s">>, slot |-> <<"A","c","c","e","s","s","o","r","i","e","s","/","e","a","r","r","i","n","g","s">>]],
    \* line 139: "(?i)hats?"
    [match |-> <<"(","?","i",")","h","a","t","s","?">>,
     map |-> [group |-> <<"A","c","c","e","s","s","o","r","i","e","s">>, slot |-> <<"A","c","c","e","s","s","o","r","i","e","s","/","h","a","t","s">>]],
    \* line 140: "(?i)masks?"
    [match |-> <<"(","?","i",")","m","a","s","k","s","?">>,
     map |-> [group |-> <<"A","c","c","e","s","s","o","r","i","e","s">>, slot |-> <<"A","c","c","e","s","s","o","r","i","e","s","/","m","a","s","k","s">>]],
    \* line 143: "(?i)sparkles?"
    [match |-> <<"(","?","i",")","s","p","a","r","k","l","e","s","?">>,
     map |-> [group |-> <<"F","X">>, slot |-> <<"F","X","/","s","p","a","r","k","l","e","s">>]],
    \* line 144: "(?i)highlights?"
    [match |-> <<"(","?","i",")","h","i","g","h","l","i","g","h","t","s","?">>,
     map |-> [group |-> <<"F","X">>, slot |-> <<"F","X","/","h","i","g","h","l","i","g","h","t","s">>]]
  >>

NoSlot == <<>>      \* canonicalSlot undefined (slice.mapped is false)
SliceIds == 1..Len(SlicePool)
SliceOf(id) == SlicePool[id]

(***************************************************************************)
(* AutoMapper (utils/autoMapper, kept in SimpleApp.tsx)                    *)
(***************************************************************************)
\* normalizeSlotPath(group, slot)
normalizeSlotPath(group, slot) ==
  LET direct(e) == e.group = group /\ e.subKey = <<>> /\ slot \in e.values
      nested(e) == e.group = group /\ e.subKey # <<>> /\ slot \in e.values
      hits == {i \in 1..Len(slotPaletteArrays) :
                 direct(slotPaletteArrays[i]) \/ nested(slotPaletteArrays[i])}
  IN IF includes(slot, <<"/">>) THEN slot
     ELSE IF hits # {} THEN
       LET e == slotPaletteArrays[CHOOSE i \in hits : \A j \in hits : i <= j] IN
       IF e.subKey = <<>> THEN Join2(Join2(group, e.slotName), slot)
       ELSE Join2(Join2(Join2(group, e.slotName), e.subKey), slot)
     ELSE Join2(group, slot)

\* the searchTexts array of mapSingleSlice / findBestMapping:
\* name, path, leaf segment, path with "/", "_", "-" replaced by spaces
searchTexts(name, path) ==
  << name,
     path,
     pop(split(path, "/")),
     replaceClass(path, {"/", "_", "-"}, " ") >>

Min(a, b) == IF a <= b THEN a ELSE b
Max(a, b) == IF a >= b THEN a ELSE b

\* AutoMapper.calculateConfidence, in units of 1/10000
amCalculateConfidence(text, rule) ==
  LET c0 == 5000
      c1 == IF includes(toLowerCase(text), toLowerCase(rule.map.slot)) THEN c0 + 3000 ELSE c0
      c2 == IF includes(text, <<"/">>) THEN c1 + 1000 ELSE c1
      c3 == c2 + Min(Len(rule.match) * 200, 2000)
  IN Min(c3, 10000)

\* one pass of the inner try block: the rule matches text when its pattern
\* compiles (new RegExp(rule.match), no flags) and test(text) is true; a
\* pattern that does not compile is caught, warned about and skipped
amRuleMatches(rule, text) ==
  LET c == NewRegExp(rule.match, FALSE) IN
  c.ok /\ RegExpTest(c.re, text)

NoMatch == [found |-> FALSE, slot |-> NoSlot, confidence |-> 0]

\* AutoMapper.mapSingleSlice: the first (text, rule) pair, texts outermost
mapSingleSlice(rules, slice) ==
  LET texts == searchTexts(slice.name, slice.psdPath)
      pairs == {<<t, r>> \in (1..Len(texts)) \X (1..Len(rules)) :
                  amRuleMatches(rules[r], texts[t])}
      before(p, q) == p[1] < q[1] \/ (p[1] = q[1] /\ p[2] <= q[2])
  IN IF pairs = {} THEN NoMatch
     ELSE LET f == CHOOSE p \in pairs : \A q \in pairs : before(p, q) IN
          [found |-> TRUE,
           slot |-> normalizeSlotPath(rules[f[2]].map.group, rules[f[2]].map.slot),
           confidence |-> amCalculateConfidence(texts[f[1]], rules[f[2]])]

\* AutoMapper.mapSlices over the slices ids (a sequence of slice ids):
\* [mapped: <<[slice, canonicalSlot, confidence]>>, unmapped: <<slice>>]
RECURSIVE amMapSlices(_, _)
amMapSlices(rules, ids) ==
  IF ids = <<>> THEN [mapped |-> <<>>, unmapped |-> <<>>]
  ELSE LET r    == mapSingleSlice(rules, SliceOf(Head(ids)))
           rest == amMapSlices(rules, Tail(ids))
       IN IF r.found
          THEN [mapped |-> <<[slice |-> Head(ids), canonicalSlot |-> r.slot,
                              confidence |-> r.confidence]>> \o rest.mapped,
                unmapped |-> rest.unmapped]
          ELSE [mapped |-> rest.mapped, unmapped |-> <<Head(ids)>> \o rest.unmapped]

\* slice.name.toLowerCase().replace(/[^a-z0-9]/g, '')
simpleName(name) ==
  SelectSeq(toLowerCase(name),
            LAMBDA c : c \in DigitChars \/ \E i \in 1..26 : LowerChars[i] = c)

InlineFlag == <<"(", "?", "i", ")">>

\* a learnFromMapping that interpolates the slice name without escaping it
amNewRule_Unescaped(name, canonicalSlot) ==
  [match |-> InlineFlag \o name,
   map |-> [group |-> split(canonicalSlot, "/")[1], slot |-> canonicalSlot]]

\* the rule learnFromMapping builds: match `(?i)${escapeRegex(slice.name)}`
amNewRule(name, canonicalSlot) ==
  [match |-> InlineFlag \o escapeRegex(name),
   map |-> [group |-> split(canonicalSlot, "/")[1], slot |-> canonicalSlot]]

\* a learnFromMapping that puts the new rule in front of the list
amLearnFromMapping_Prepend(rules, name, canonicalSlot) ==
  IF Len(split(canonicalSlot, "/")) >= 2 /\ Len(simpleName(name)) > 2
  THEN <<amNewRule(name, canonicalSlot)>> \o rules
  ELSE rules

\* AutoMapper.learnFromMapping: the rule list after the call
amLearnFromMapping(rules, name, canonicalSlot) ==
  LET newRule == amNewRule(name, canonicalSlot)
      exists  == \E i \in 1..Len(rules) :
                   /\ rules[i].match = newRule.match
                   /\ rules[i].map.group = newRule.map.group
                   /\ rules[i].map.slot = newRule.map.slot
  IN IF Len(split(canonicalSlot, "/")) < 2 THEN rules
     ELSE IF Len(simpleName(name)) > 2 /\ ~exists THEN Append(rules, newRule)
     ELSE rules

\* AutoMapper.getPendingRules: this.rules.slice(defaultRuleCount)
getPendingRules(rules) == SubSeq(rules, Len(getDefaultRules) + 1, Len(rules))

(***************************************************************************)
(* AutoMappingService (application/services/AutoMappingService)            *)
(***************************************************************************)
\* c + 0.1 and c - 0.1 in IEEE double arithmetic, in units of 1/10000 with the
\* last-place error kept as +-1: 0.7 + 0.1 = 0.7999999999999999 and
\* 0.8 - 0.1 = 0.7000000000000001; the other sums of the values in use are exact
Add01(c) == IF c = 7000 THEN 7999 ELSE c + 1000
Sub01(c) == IF c = 8000 THEN 7001 ELSE c - 1000

\* AutoMappingService.calculateConfidence
svcCalculateConfidence(text, rule) ==
  LET leaf == pop(split(toLowerCase(rule.slotPath), "/"))
      c1 == IF toLowerCase(text) = leaf THEN Min(Add01(rule.confidence), 10000)
            ELSE rule.confidence
      c2 == IF includes(text, <<"/">>) THEN Max(Sub01(c1), 1000) ELSE c1
  IN c2

\* AutoMappingService.findBestMapping.  The loops visit the (text, rule) pairs
\* with texts outermost and replace bestMatch only by a pair of strictly
\* greater confidence, so bestMatch ends as the earliest pair, in loop order,
\* among the matching pairs of the greatest confidence; null when none matches.
findBestMapping(rules, slice) ==
  LET texts == searchTexts(slice.name, slice.psdPath)
      hits == {p \in (1..Len(texts)) \X (1..Len(rules)) :
                 RegExpTest(rules[p[2]].pattern, texts[p[1]])}
      conf == [p \in hits |-> svcCalculateConfidence(texts[p[1]], rules[p[2]])]
      top == {p \in hits : \A q \in hits : conf[q] <= conf[p]}
      before(p, q) == p[1] < q[1] \/ (p[1] = q[1] /\ p[2] <= q[2])
  IN IF hits = {} THEN NoMatch
     ELSE LET b == CHOOSE p \in top : \A q \in top : before(p, q) IN
          [found |-> TRUE, slot |-> rules[b[2]].slotPath, confidence |-> conf[b]]

\* AutoMappingService.mapSlices
RECURSIVE svcMapSlices(_, _)
svcMapSlices(rules, ids) ==
  IF ids = <<>> THEN [mapped |-> <<>>, unmapped |-> <<>>]
  ELSE LET r    == findBestMapping(rules, SliceOf(Head(ids)))
           rest == svcMapSlices(rules, Tail(ids))
       IN IF r.found
          THEN [mapped |-> <<[slice |-> Head(ids), slotPath |-> r.slot,
                              confidence |-> r.confidence]>> \o rest.mapped,
                unmapped |-> rest.unmapped]
          ELSE [mapped |-> rest.mapped, unmapped |-> <<Head(ids)>> \o rest.unmapped]

LearnedConfidence == 7000

\* AutoMappingService.learnFromMapping: the rule list after the call
svcLearnFromMapping(rules, name, slotPath) ==
  IF Len(simpleName(name)) > 2
  THEN Append(rules, [pattern |-> NewRegExp(escapeRegex(name), TRUE).re,
                      slotPath |-> slotPath,
                      confidence |-> LearnedConfidence])
  ELSE rules

\* an addCustomRule that pushes whatever the constructor yields
svcAddCustomRule_PushAlways(rules, pattern, slotPath, confidence) ==
  Append(rules, [pattern |-> NewRegExp(pattern, TRUE).re, slotPath |-> slotPath,
                 confidence |-> confidence])

\* AutoMappingService.addCustomRule: the rule list after the call; a pattern
\* that does not compile is caught and warned about
svcAddCustomRule(rules, pattern, slotPath, confidence) ==
  LET regex == NewRegExp(pattern, TRUE) IN
  IF regex.ok
  THEN Append(rules, [pattern |-> regex.re, slotPath |-> slotPath, confidence |-> confidence])
  ELSE rules

\* the default of addCustomRule's confidence parameter, 0.8
DefaultCustomConfidence == 8000

\* new AutoMapper(slotPalette, rules): this.rules
newAutoMapper(rules) == getDefaultRules \o rules

(***************************************************************************)
(* Avatar aggregate (domain/entities/Avatar.ts).  _sliceMappings is a      *)
(* Map<string, SliceMapping>: tbl holds the value of each key (NoMapping   *)
(* when the key is absent) and keys the keys in insertion order, which is  *)
(* the order Map.prototype.keys() iterates in.                             *)
(***************************************************************************)
AvatarSlots == {P_MouthAI, P_HairFront, P_BodyTorso}
NoMapping == [sliceId |-> 0]

\* new SliceMapping(sliceId, bounds): zOffset 0, tint white, visible
SliceMapping(id) ==
  [sliceId |-> id,
   bounds |-> [x |-> 10 * id, y |-> 0, width |-> 1, height |-> 1],
   zOffset |-> 0, tint |-> "#ffffff", isVisible |-> TRUE]

\* the elements of the sequence s
Range(s) == {s[i] : i \in 1..Len(s)}

\* a table that keeps the first mapping of a slot path
addSliceMapping_KeepFirst(sm, slotPath, mapping) ==
  IF slotPath \in Range(sm.keys) THEN sm
  ELSE [tbl |-> [sm.tbl EXCEPT ![slotPath] = mapping], keys |-> Append(sm.keys, slotPath)]

\* Avatar.addSliceMapping: Map.set keeps the position of a key already present
addSliceMapping(sm, slotPath, mapping) ==
  [tbl  |-> [sm.tbl EXCEPT ![slotPath] = mapping],
   keys |-> IF slotPath \in Range(sm.keys) THEN sm.keys ELSE Append(sm.keys, slotPath)]

\* a removal that forgets the value but keeps the key listed
removeSliceMapping_KeepKey(sm, slotPath) ==
  [tbl |-> [sm.tbl EXCEPT ![slotPath] = NoMapping], keys |-> sm.keys]

\* Avatar.removeSliceMapping: Map.delete
removeSliceMapping(sm, slotPath) ==
  [tbl  |-> [sm.tbl EXCEPT ![slotPath] = NoMapping],
   keys |-> SelectSeq(sm.keys, LAMBDA k : k # slotPath)]

\* Avatar.hasSliceMapping, getSliceMapping, getSlotPaths
hasSliceMapping(sm, slotPath) == sm.tbl[slotPath] # NoMapping
getSliceMapping(sm, slotPath) == sm.tbl[slotPath]
getSlotPaths(sm) == sm.keys

(***************************************************************************)
(* DrawOrder (domain/value-objects/DrawOrder.ts)                           *)
(***************************************************************************)
\* DrawOrder.matchesPattern
matchesPattern(slotPath, pattern) ==
  IF includes(pattern, <<"*">>)
  THEN startsWith(slotPath, replaceFirst(pattern, <<"/", "*">>, <<>>))
  ELSE slotPath = pattern

\* the loop of getZIndex from index i (1-based) on
RECURSIVE zIndexFrom(_, _, _)
zIndexFrom(pats, slotPath, i) ==
  IF i > Len(pats) THEN Len(pats)
  ELSE IF matchesPattern(slotPath, pats[i]) THEN i - 1
  ELSE zIndexFrom(pats, slotPath, i + 1)

\* a getZIndex that counts patterns from one
getZIndex_OneBased(pats, slotPath) == zIndexFrom(pats, slotPath, 1) + 1

\* DrawOrder.getZIndex: 0-based index of the first matching pattern
getZIndex(pats, slotPath) == zIndexFrom(pats, slotPath, 1)

\* the comparator handed to Array.prototype.sort
zCompare(pats, a, b) == getZIndex(pats, a) - getZIndex(pats, b)

\* insert x into the sorted sequence s after every element that does not
\* compare greater than it
RECURSIVE insertStable(_, _, _)
insertStable(pats, s, x) ==
  IF s = <<>> THEN <<x>>
  ELSE IF zCompare(pats, Head(s), x) > 0 THEN <<x>> \o s
  ELSE <<Head(s)>> \o insertStable(pats, Tail(s), x)

\* a sort that puts equal elements in the reverse of their input order
RECURSIVE sortSlotPaths_TiesReversed(_, _)
sortSlotPaths_TiesReversed(pats, slotPaths) ==
  IF slotPaths = <<>> THEN <<>>
  ELSE insertStable(pats, sortSlotPaths_TiesReversed(pats, Tail(slotPaths)), Head(slotPaths))

\* [...slotPaths].sort(cmp): Array.prototype.sort is stable (ECMAScript 2019)
RECURSIVE sortSlotPaths(_, _)
sortSlotPaths(pats, slotPaths) ==
  IF slotPaths = <<>> THEN <<>>
  ELSE insertStable(pats,
                    sortSlotPaths(pats, SubSeq(slotPaths, 1, Len(slotPaths) - 1)),
                    slotPaths[Len(slotPaths)])

(***************************************************************************)
(* BundleExporter.generateAtlas (utils/bundleExporter.ts)                  *)
(***************************************************************************)
MaxTextureSize == 4096

\* Math.ceil(Math.sqrt(totalArea * 1.2)): the least n with n * n >= 1.2 * totalArea
atlasSizeFor(totalArea) ==
  CHOOSE n \in 0..(2 * totalArea + 1) :
    /\ 5 * n * n >= 6 * totalArea
    /\ \A m \in 0..(n - 1) : 5 * m * m < 6 * totalArea

RECURSIVE totalAreaOf(_)
totalAreaOf(slices) ==
  IF slices = <<>> THEN 0
  ELSE Head(slices).w * Head(slices).h + totalAreaOf(Tail(slices))

\* canvas.width = canvas.height = Math.min(atlasSize, 4096)
canvasSideFor(slices) == Min(atlasSizeFor(totalAreaOf(slices)), MaxTextureSize)

\* a row check that starts the new row without moving down
rowCheck_KeepY(cur, side, w) ==
  IF cur.currentX + w > side
  THEN [cur EXCEPT !.currentX = 0, !.rowHeight = 0]
  ELSE cur

\* the row check of one loop iteration: the cursor the slice is drawn at
rowCheck(cur, side, w) ==
  IF cur.currentX + w > side
  THEN [cur EXCEPT !.currentX = 0, !.currentY = cur.currentY + cur.rowHeight, !.rowHeight = 0]
  ELSE cur

\* the end of one loop iteration: the cursor after the slice
advance(cur, w, h) ==
  [cur EXCEPT !.i = cur.i + 1,
              !.currentX = cur.currentX + w,
              !.rowHeight = Max(cur.rowHeight, h)]

NoRect == [id |-> 0]

\* the bounds a slice was extracted with, before any packing
SourceRect(k, s) == [x |-> 10 * k, y |-> 5, w |-> s.w, h |-> s.h, id |-> k]

(***************************************************************************)
(* Bounds and inputs                                                       *)
(***************************************************************************)
MaxLearned == 2        \* learned rules a run may append to AutoMappingService.rules
MaxSortLen == 3        \* longest argument of sortSlotPaths
MaxAtlasSlices == 3    \* most slices of one atlas
MaxSliceW == 3         \* slice widths are 1..MaxSliceW
MaxMappingId == 2      \* slice ids used in Avatar mappings are 1..MaxMappingId

\* arguments of mapSlices
Batches == {<<1, 2, 3, 4>>, <<5, 6, 7>>}
\* arguments of manualMap / learnFromMapping
ManualSlices == {6, 7}
ManualSlots == {P_HairFront, P_FXSparkles, P_Body}
LearnArgs == ManualSlices \X ManualSlots
\* the slot paths handed to AutoMappingService.learnFromMapping
SvcManualSlots == {P_HairFront, P_Body}

\* pattern lists a DrawOrder is created with
PatternsAB      == << <<"A">>, <<"B","/","*">> >>
PatternsExample == << <<"B","o","d","y","/","*">>, P_HairBack, P_HairFront >>
PatternsHair    == << <<"H","a","i","r","/","*">>, P_BodyTorso >>
PatternLists == {DEFAULT_PATTERNS, PatternsAB, PatternsExample, PatternsHair}
\* slot paths handed to sortSlotPaths
P_Bx == <<"B","/","x">>
P_By == <<"B","/","y">>
P_A  == <<"A">>
P_C  == <<"C">>
SortSlots == {P_BodyTorso, P_BodyArms, P_HairBack, P_HairFront, P_Bx, P_By, P_C}
\* slot paths handed to getZIndex
ZSlots == SortSlots \cup {P_A, P_FXSparkles, P_Hairband}
\* the sequences of distinct elements of S of length at most n
DistinctSeqs(S, n) ==
  UNION {{s \in [1..k -> S] : \A i, j \in 1..k : i # j => s[i] # s[j]} : k \in 0..n}

\* the heights slices come in
SliceHeights == {1, 2}
\* the keys of mappedSlices, by position
AtlasSlotNames == <<P_BodyTorso, P_HairBack, P_HairFront, P_FXSparkles, P_MouthAI>>
AtlasSlots == Range(AtlasSlotNames)
AtlasInputs ==
  UNION {[1..k -> [w : 1..MaxSliceW, h : SliceHeights]] :
           k \in 1..Min(MaxAtlasSlices, Len(AtlasSlotNames))}

(***************************************************************************)
(* ZOffset value object and the inspector's z-nudge                        *)
(*                                                                         *)
(* An ECMAScript number is modelled as [nan, h]: NaN, or the value         *)
(* h / ZDenominator.  Every comparison with NaN is false and every         *)
(* arithmetic result with a NaN operand is NaN.                            *)
(***************************************************************************)
ZDenominator == 2

Num(h) == [nan |-> FALSE, h |-> h]
NaN == [nan |-> TRUE, h |-> 0]
Whole(n) == Num(n * ZDenominator)

NumLess(a, b) == ~a.nan /\ ~b.nan /\ a.h < b.h
NumPlus(a, b) == IF a.nan \/ b.nan THEN NaN ELSE Num(a.h + b.h)
MathMin(a, b) == IF a.nan \/ b.nan THEN NaN ELSE IF a.h <= b.h THEN a ELSE b
MathMax(a, b) == IF a.nan \/ b.nan THEN NaN ELSE IF a.h >= b.h THEN a ELSE b
\* a || 0
OrZero(a) == IF a.nan \/ a.h = 0 THEN Whole(0) ELSE a
IsInteger(a) == ~a.nan /\ a.h % ZDenominator = 0

MIN_VALUE == Whole(-2)
MAX_VALUE == Whole(2)

\* new ZOffset(value): [threw, value]
NewZOffset(value) ==
  [threw |-> NumLess(value, MIN_VALUE) \/ NumLess(MAX_VALUE, value), value |-> value]

ZOffsetCreate(value) == NewZOffset(value)
ZOffsetDefault == NewZOffset(Whole(0))
increment(z) == NewZOffset(MathMin(NumPlus(z, Whole(1)), MAX_VALUE))
decrement(z) == NewZOffset(MathMax(NumPlus(z, Whole(-1)), MIN_VALUE))

\* SlotInspector.handleZOffsetChange(delta), zOffset the prop of the inspector
handleZOffsetChange(zOffsetProp, delta) ==
  MathMax(Whole(-2), MathMin(Whole(2), NumPlus(zOffsetProp, delta)))

\* the numbers handed to ZOffset.create
ZCreateInputs ==
  {Num(h) : h \in (MIN_VALUE.h - ZDenominator)..(MAX_VALUE.h + ZDenominator)} \cup {NaN}
NoZOp == [op |-> "none", arg |-> Whole(0), threw |-> FALSE, before |-> Whole(0)]

(***************************************************************************)
(* SchemaValidator (schemas/avatarSchema)                                  *)
(*                                                                         *)
(* A document is a record of the fields the validator reads.  An avatar    *)
(* is [hasGenerator, hasRigId, rigId, slices, anchors, drawOrder, extra]:  *)
(* slices and anchors are the keys of images.slices and of anchors in      *)
(* Object.keys order (every value is an object, so a key is present        *)
(* exactly when its value is truthy), extra says that the root holds a     *)
(* property the schema does not name.  A manifest is                       *)
(* [hasName, rigId, entryAvatar], an item is [hasSku].  Every field that   *)
(* is not modelled is present and well typed.                              *)
(***************************************************************************)
P_EyeLClosed == <<"E","y","e","s","/","E","y","e","L","/","s","t","a","t","e","/","c","l","o","s","e","d">>   \* Eyes/EyeL/state/closed
P_EyeRClosed == <<"E","y","e","s","/","E","y","e","R","/","s","t","a","t","e","/","c","l","o","s","e","d">>   \* Eyes/EyeR/state/closed
P_MouthREST == <<"M","o","u","t","h","/","v","i","s","e","m","e","/","R","E","S","T">>   \* Mouth/viseme/REST
P_MouthU == <<"M","o","u","t","h","/","v","i","s","e","m","e","/","U">>   \* Mouth/viseme/U
P_MouthO == <<"M","o","u","t","h","/","v","i","s","e","m","e","/","O">>   \* Mouth/viseme/O
P_MouthFV == <<"M","o","u","t","h","/","v","i","s","e","m","e","/","F","V">>   \* Mouth/viseme/FV
A_headPivot == <<"h","e","a","d","P","i","v","o","t">>   \* headPivot
A_mouthCenter == <<"m","o","u","t","h","C","e","n","t","e","r">>   \* mouthCenter
A_neckBase == <<"n","e","c","k","B","a","s","e">>   \* neckBase
AvatarJson == <<"a","v","a","t","a","r",".","j","s","o","n">>   \* avatar.json
AtlasPng == <<"a","t","l","a","s",".","p","n","g">>   \* atlas.png
DefaultRigId == <<"a","n","i","m","e","-","1","0","2","4","-","h","e","a","d","A","-","v","1">>   \* anime-1024-headA-v1
OtherRigId == <<"c","h","i","b","i","-","5","1","2","-","v","2">>   \* chibi-512-v2
MsgMissingEssential == <<"M","i","s","s","i","n","g"," ","e","s","s","e","n","t","i","a","l"," ","s","l","o","t","s",":"," ">>   \* Missing essential slots: 
MsgMissingVisemes == <<"M","i","s","s","i","n","g"," ","r","e","c","o","m","m","e","n","d","e","d"," ","v","i","s","e","m","e","s",":"," ">>   \* Missing recommended visemes: 
MsgMissingRigId == <<"M","i","s","s","i","n","g"," ","r","i","g","I","d"," ","i","n"," ","a","v","a","t","a","r"," ","m","e","t","a","d","a","t","a">>   \* Missing rigId in avatar metadata
MsgMissingAnchors == <<"M","i","s","s","i","n","g"," ","r","e","c","o","m","m","e","n","d","e","d"," ","a","n","c","h","o","r","s",":"," ">>   \* Missing recommended anchors: 
MsgUncovered == <<"S","l","o","t","s"," ","n","o","t"," ","c","o","v","e","r","e","d"," ","b","y"," ","d","r","a","w"," ","o","r","d","e","r",":"," ">>   \* Slots not covered by draw order: 
MsgRigIdMismatch == <<"M","a","n","i","f","e","s","t"," ","r","i","g","I","d"," ","d","o","e","s"," ","n","o","t"," ","m","a","t","c","h"," ","a","v","a","t","a","r"," ","r","i","g","I","d">>   \* Manifest rigId does not match avatar rigId
MsgEntryPoint ==
  <<"M","a","n","i","f","e","s","t"," ","e","n","t","r","y"," ","p","o","i","n","t"," ","s","h","o","u","l","d"," ","t","y","p","i","c","a","l","l","y"," ","b","e"," ">> \o <<"\"">> \o AvatarJson \o <<"\"">>   \* Manifest entry point should typically be "avatar.json"
PrefixManifest == <<"M","a","n","i","f","e","s","t",":"," ">>   \* Manifest: 
PrefixAvatar == <<"A","v","a","t","a","r",":"," ">>   \* Avatar: 
PrefixItem == <<"I","t","e","m"," ">>   \* Item 

\* the messages of the schema compiler (ajv, allErrors), as
\* `${error.instancePath || 'root'}: ${error.message}`
ErrRootRequiredName == <<"r","o","o","t",":"," ","m","u","s","t"," ","h","a","v","e"," ","r","e","q","u","i","r","e","d"," ","p","r","o","p","e","r","t","y"," ","'","n","a","m","e","'">>   \* root: must have required property 'name'
ErrRootAdditional == <<"r","o","o","t",":"," ","m","u","s","t"," ","N","O","T"," ","h","a","v","e"," ","a","d","d","i","t","i","o","n","a","l"," ","p","r","o","p","e","r","t","i","e","s">>   \* root: must NOT have additional properties
ErrMetaRequiredGenerator == <<"/","m","e","t","a",":"," ","m","u","s","t"," ","h","a","v","e"," ","r","e","q","u","i","r","e","d"," ","p","r","o","p","e","r","t","y"," ","'","g","e","n","e","r","a","t","o","r","'">>   \* /meta: must have required property 'generator'
ErrMetaRequiredRigId == <<"/","m","e","t","a",":"," ","m","u","s","t"," ","h","a","v","e"," ","r","e","q","u","i","r","e","d"," ","p","r","o","p","e","r","t","y"," ","'","r","i","g","I","d","'">>   \* /meta: must have required property 'rigId'
ErrDrawOrderMinItems == <<"/","d","r","a","w","O","r","d","e","r",":"," ","m","u","s","t"," ","N","O","T"," ","h","a","v","e"," ","f","e","w","e","r"," ","t","h","a","n"," ","1"," ","i","t","e","m","s">>   \* /drawOrder: must NOT have fewer than 1 items
ErrRootRequiredSku == <<"r","o","o","t",":"," ","m","u","s","t"," ","h","a","v","e"," ","r","e","q","u","i","r","e","d"," ","p","r","o","p","e","r","t","y"," ","'","s","k","u","'">>   \* root: must have required property 'sku'

\* a join that stops after the first element
join_FirstOnly(a, sep) == IF Len(a) = 0 THEN <<>> ELSE a[1]

\* Array.prototype.join
RECURSIVE join(_, _)
join(a, sep) ==
  IF Len(a) = 0 THEN <<>>
  ELSE IF Len(a) = 1 THEN a[1]
  ELSE a[1] \o sep \o join(Tail(a), sep)

CommaSpace == <<",", " ">>
ColonSpace == <<":", " ">>
\* `${index}` of an index below ten
IndexString(i) == << <<"0","1","2","3","4","5","6","7","8","9">>[i + 1] >>

essentialSlots == <<P_EyeLOpen, P_EyeLClosed, P_EyeROpen, P_EyeRClosed, P_MouthREST>>
recommendedVisemes == <<P_MouthAI, P_MouthE, P_MouthU, P_MouthO, P_MouthFV>>
essentialAnchors == <<A_headPivot, A_mouthCenter>>

\* the elements of names that are not keys
missingFrom(names, keys) ==
  LET absent(n) == n \notin Range(keys) IN SelectSeq(names, absent)

\* avatar.drawOrder.some(pattern => ...) for one slot key
drawOrderCovers(drawOrder, slotKey) ==
  \E i \in 1..Len(drawOrder) :
    LET pattern == drawOrder[i] IN
    IF includes(pattern, <<"*">>)
    THEN startsWith(slotKey, replaceFirst(pattern, <<"/", "*">>, <<>>))
    ELSE slotKey = pattern

unmatchedSlots_None(avatar) == <<>>

unmatchedSlots(avatar) ==
  LET uncovered(slotKey) == ~drawOrderCovers(avatar.drawOrder, slotKey)
  IN SelectSeq(avatar.slices, uncovered)

\* !avatar.meta.rigId: undefined and the empty string are falsy
rigIdFalsy(avatar) == ~avatar.hasRigId \/ avatar.rigId = <<>>

isValid_Always(errors) == TRUE

\* valid: errors.length === 0
isValid(errors) == Len(errors) = 0

validateAvatarCompleteness(avatar) ==
  LET missingEssentials == missingFrom(essentialSlots, avatar.slices)
      missingVisemes == missingFrom(recommendedVisemes, avatar.slices)
      missingAnchors == missingFrom(essentialAnchors, avatar.anchors)
      unmatched == unmatchedSlots(avatar)
      errors ==
        (IF Len(missingEssentials) > 0
         THEN << MsgMissingEssential \o join(missingEssentials, CommaSpace) >> ELSE <<>>)
        \o (IF rigIdFalsy(avatar) THEN << MsgMissingRigId >> ELSE <<>>)
      warnings ==
        (IF Len(missingVisemes) > 0
         THEN << MsgMissingVisemes \o join(missingVisemes, CommaSpace) >> ELSE <<>>)
        \o (IF Len(missingAnchors) > 0
            THEN << MsgMissingAnchors \o join(missingAnchors, CommaSpace) >> ELSE <<>>)
        \o (IF Len(unmatched) > 0
            THEN << MsgUncovered \o join(unmatched, CommaSpace) >> ELSE <<>>)
  IN [valid |-> isValid(errors), errors |-> errors, warnings |-> warnings]

\* the schema checks: [valid, errors]
schemaResult(errors) == [valid |-> Len(errors) = 0, errors |-> errors]

validateAvatar(avatar) ==
  schemaResult(
    (IF avatar.extra THEN << ErrRootAdditional >> ELSE <<>>)
    \o (IF ~avatar.hasGenerator THEN << ErrMetaRequiredGenerator >> ELSE <<>>)
    \o (IF ~avatar.hasRigId THEN << ErrMetaRequiredRigId >> ELSE <<>>)
    \o (IF Len(avatar.drawOrder) < 1 THEN << ErrDrawOrderMinItems >> ELSE <<>>))

validateManifest(manifest) ==
  schemaResult(IF ~manifest.hasName THEN << ErrRootRequiredName >> ELSE <<>>)

validateItem(item) ==
  schemaResult(IF ~item.hasSku THEN << ErrRootRequiredSku >> ELSE <<>>)

\* errors.map(e => prefix + e)
prefixAll(prefix, errors) == [i \in 1..Len(errors) |-> prefix \o errors[i]]

\* items.forEach((item, index) => ...): the item errors, in order
RECURSIVE itemErrors(_, _)
itemErrors(items, index) ==
  IF index >= Len(items) THEN <<>>
  ELSE prefixAll(PrefixItem \o IndexString(index) \o ColonSpace,
                 validateItem(items[index + 1]).errors)
       \o itemErrors(items, index + 1)

validateBundle(manifest, avatar, items) ==
  LET manifestResult == validateManifest(manifest)
      avatarResult == validateAvatar(avatar)
      completenessResult == validateAvatarCompleteness(avatar)
      errors ==
        prefixAll(PrefixManifest, manifestResult.errors)
        \o (IF ~avatarResult.valid THEN prefixAll(PrefixAvatar, avatarResult.errors)
            ELSE completenessResult.errors)
        \o itemErrors(items, 0)
      warnings ==
        (IF avatarResult.valid THEN completenessResult.warnings ELSE <<>>)
        \o (IF manifestResult.valid /\ avatarResult.valid
            THEN (IF manifest.rigId # avatar.rigId THEN << MsgRigIdMismatch >> ELSE <<>>)
                 \o (IF manifest.entryAvatar # AvatarJson THEN << MsgEntryPoint >> ELSE <<>>)
            ELSE <<>>)
  IN [valid |-> isValid(errors), errors |-> errors, warnings |-> warnings]

\* ---- the documents handed to the validator ----
\* Object.keys order of images.slices
SliceKeyOrder ==
  <<P_EyeLOpen, P_EyeLClosed, P_EyeROpen, P_EyeRClosed, P_MouthREST,
    P_MouthAI, P_MouthE, P_MouthU, P_MouthO, P_MouthFV, P_FXSparkles>>
keysOf(S) == LET present(k) == k \in S IN SelectSeq(SliceKeyOrder, present)

\* the draw order of the application's initial avatar without its FX/* pattern
NoFXPatterns == SubSeq(DEFAULT_PATTERNS, 1, Len(DEFAULT_PATTERNS) - 1)

AllAnchors == <<A_headPivot, A_mouthCenter, A_neckBase>>
VisemeChoices == {Range(recommendedVisemes), {}, {P_MouthAI, P_MouthE}}
FXChoices == {{}, {P_FXSparkles}}

AvatarDoc(S, rigId, anchors, drawOrder) ==
  [hasGenerator |-> TRUE, hasRigId |-> TRUE, rigId |-> rigId, slices |-> keysOf(S),
   anchors |-> anchors, drawOrder |-> drawOrder, extra |-> FALSE]

\* well-typed avatars: every subset of the essential slots
TypedAvatars ==
  {AvatarDoc(E \cup V \cup F, rigId, anchors, drawOrder) :
     E \in SUBSET Range(essentialSlots), V \in VisemeChoices, F \in FXChoices,
     rigId \in {<<>>, DefaultRigId},
     anchors \in {AllAnchors, <<A_headPivot>>, <<>>},
     drawOrder \in {DEFAULT_PATTERNS, NoFXPatterns}}

\* documents of unknown shape, as validateBundle takes them
BundleAvatarBase ==
  {AvatarDoc(E \cup V \cup F, rigId, anchors, drawOrder) :
     E \in {Range(essentialSlots), Range(essentialSlots) \ {P_EyeLClosed}},
     V \in {Range(recommendedVisemes), {}}, F \in FXChoices,
     rigId \in {<<>>, DefaultRigId},
     anchors \in {AllAnchors, <<>>},
     drawOrder \in {DEFAULT_PATTERNS, NoFXPatterns, <<>>}}
BundleAvatars ==
  BundleAvatarBase
  \cup {[a EXCEPT !.extra = TRUE] : a \in BundleAvatarBase}
  \cup {[a EXCEPT !.hasRigId = FALSE, !.rigId = <<>>] : a \in BundleAvatarBase}
  \cup {[a EXCEPT !.hasGenerator = FALSE] : a \in {b \in BundleAvatarBase : b.anchors = <<>>}}

OtherEntry == <<"m","a","i","n",".","j","s","o","n">>   \* main.json
Manifests ==
  [hasName : BOOLEAN, rigId : {DefaultRigId, OtherRigId}, entryAvatar : {AvatarJson, OtherEntry}]
ItemLists == {<<>>, <<[hasSku |-> TRUE]>>, <<[hasSku |-> TRUE], [hasSku |-> FALSE]>>}

NoDoc == [hasGenerator |-> TRUE, hasRigId |-> TRUE, rigId |-> <<>>, slices |-> <<>>,
          anchors |-> <<>>, drawOrder |-> <<>>, extra |-> FALSE]
NoManifest == [hasName |-> TRUE, rigId |-> <<>>, entryAvatar |-> <<>>]
NoValCall == [op |-> "none", avatar |-> NoDoc, manifest |-> NoManifest, items |-> <<>>]
NoValResult == [valid |-> TRUE, errors |-> <<>>, warnings |-> <<>>]

(***************************************************************************)
(* BundleExporter.exportBundle (utils/bundleExporter.ts)                   *)
(*                                                                         *)
(* The exporter's avatar is [hasRigId, rigId, slices, anchors, drawOrder,  *)
(* rects, atlas]: the fields of the validator's document, the rectangle    *)
(* of every key of images.slices and images.atlas.  mappedSlices is        *)
(* <<[slot, w, h]>> in Object.entries order.  A zip entry is [kind, slot]; *)
(* the text of the avatar.json entry is kept beside the zip.  The exporter *)
(* is built as `new BundleExporter(avatar, mappedSlices)`, so it has no    *)
(* layer paths, wardrobe items or rules to write.                          *)
(***************************************************************************)
ExportSlots == Range(SliceKeyOrder)

\* the validator's view of the exporter's avatar
avatarDocOf(avatar) ==
  [hasGenerator |-> TRUE, hasRigId |-> avatar.hasRigId, rigId |-> avatar.rigId,
   slices |-> avatar.slices, anchors |-> avatar.anchors,
   drawOrder |-> avatar.drawOrder, extra |-> FALSE]

\* generateManifest: rigId is avatar.meta.rigId || 'anime-1024-headA-v1'
generateManifest(avatar) ==
  [hasName |-> TRUE,
   rigId |-> IF rigIdFalsy(avatar) THEN DefaultRigId ELSE avatar.rigId,
   entryAvatar |-> AvatarJson]

DotPng == <<".","p","n","g">>   \* .png
SlicesCanon == <<"s","l","i","c","e","s","/","c","a","n","o","n","/">>   \* slices/canon/

\* getCanonicalFileName: `${parts[parts.length - 1]}.png`
getCanonicalFileName(slotPath) == pop(split(slotPath, "/")) \o DotPng

\* getCanonicalFolderPath: parts.slice(0, -1).join('/')
getCanonicalFolderPath(slotPath) ==
  LET parts == split(slotPath, "/") IN join(SubSeq(parts, 1, Len(parts) - 1), <<"/">>)

\* the archive path of the file addCanonicalSlices writes for a slot: the
\* file name inside ensureFolder(canonFolder, folderPath), canonFolder being
\* zip.folder('slices').folder('canon')
canonArchivePath(slotPath) ==
  LET folderPath == getCanonicalFolderPath(slotPath) IN
  SlicesCanon \o (IF folderPath = <<>> THEN <<>> ELSE folderPath \o <<"/">>)
              \o getCanonicalFileName(slotPath)

\* the keys of the hashes record generateManifest builds: one assignment
\* hashes[`slices/canon/${fileName}`] per key of mappedSlices
generateManifestHashes(mapped) ==
  {SlicesCanon \o getCanonicalFileName(mapped[k].slot) : k \in 1..Len(mapped)}

\* JSON.stringify(this.avatar): the text holds the rectangles and the atlas
\* reference the avatar has when it is serialized
stringifyAvatar(avatar) == [rects |-> avatar.rects, atlas |-> avatar.atlas]

\* the packing loop of generateAtlas from cursor cur on: the rectangles of
\* avatar.images.slices after it
RECURSIVE packFrom(_, _, _, _)
packFrom(rects, mapped, cur, side) ==
  IF cur.i > Len(mapped) THEN rects
  ELSE LET s  == mapped[cur.i]
           at == rowCheck(cur, side, s.w)
       IN packFrom(IF rects[s.slot] # NoRect
                   THEN [rects EXCEPT ![s.slot] =
                           [x |-> at.currentX, y |-> at.currentY,
                            w |-> s.w, h |-> s.h, id |-> @.id]]
                   ELSE rects,
                   mapped, advance(at, s.w, s.h), side)

\* generateAtlas(): the avatar after the call
generateAtlas(avatar, mapped) ==
  [avatar EXCEPT
     !.rects = packFrom(avatar.rects, mapped,
                        [i |-> 1, currentX |-> 0, currentY |-> 0, rowHeight |-> 0],
                        canvasSideFor(mapped)),
     !.atlas = "atlas.png"]

\* a conversion that always yields a blob
canvasToBlob_NeverRejects(blob) == [rejected |-> FALSE, error |-> "none"]

\* canvasToBlob(canvas): toBlob hands the callback a blob or null
canvasToBlob(blob) ==
  IF blob THEN [rejected |-> FALSE, error |-> "none"]
  ELSE [rejected |-> TRUE, error |-> "Failed to convert canvas to blob"]

\* the next await of exportBundle, from each point of its body on
enterPreviews(options) == IF options.generatePreviews THEN "previews" ELSE "generate"
enterAtlas(options) == IF options.includeAtlas THEN "atlas" ELSE enterPreviews(options)
enterRaw(options, n) ==
  IF options.includeRawSlices /\ n > 0 THEN "raw" ELSE enterAtlas(options)
enterCanon(options, n) == IF n > 0 THEN "canon" ELSE enterRaw(options, n)

entry(kind, slot) == [kind |-> kind, slot |-> slot]

\* ---- the exporters a run builds ----
MaxExportCalls == 2    \* exportBundle calls of a run, on the same avatar object

ExportSlotSets ==
  {Range(essentialSlots) \cup {P_FXSparkles},
   (Range(essentialSlots) \ {P_EyeLClosed}) \cup {P_FXSparkles},
   {}}
ExportOptionSets ==
  [includeAtlas : BOOLEAN, includeRawSlices : BOOLEAN, generatePreviews : BOOLEAN]

\* the slices are mapped in key order, with bounds that differ by position
mappedSlicesOf(keys) ==
  [k \in 1..Len(keys) |->
     [slot |-> keys[k], w |-> 1 + (k % MaxSliceW), h |-> 1 + (k % 2)]]

exportAvatarOf(S, rigId) ==
  LET keys == keysOf(S)
      mapped == mappedSlicesOf(keys)
  IN [hasRigId |-> TRUE, rigId |-> rigId, slices |-> keys, anchors |-> AllAnchors,
      drawOrder |-> DEFAULT_PATTERNS,
      rects |-> [s \in ExportSlots |->
                   IF s \in S
                   THEN LET k == CHOOSE k \in 1..Len(keys) : keys[k] = s
                        IN SourceRect(k, mapped[k])
                   ELSE NoRect],
      atlas |-> "none"]

NoOptions == [includeAtlas |-> FALSE, includeRawSlices |-> FALSE, generatePreviews |-> FALSE]

(***************************************************************************)
(* MapSliceToSlotUseCase.execute                                           *)
(*                                                                         *)
(* The use case reaches its collaborators through the SliceRepository and  *)
(* AvatarRepository interfaces.  Each call of a collaborator resolves or   *)
(* throws, the choice left open; the current avatar is the object          *)
(* getCurrent() resolves with, the Avatar of the variables sliceMappings.  *)
(***************************************************************************)
\* the outcome of the collaborators' calls during one execute.  A call that
\* throws ends the execute, so at most one call of an execute throws.
AllResolve == [getCurrent |-> "avatar", create |-> "id", findById |-> "found", save |-> "saved"]
Outcomes ==
  {AllResolve,
   [AllResolve EXCEPT !.getCurrent = "null"],
   [AllResolve EXCEPT !.getCurrent = "throws"],
   [AllResolve EXCEPT !.create = "throws"],
   [AllResolve EXCEPT !.findById = "throws"],
   [AllResolve EXCEPT !.save = "throws"]}

failure(message) == [success |-> FALSE, error |-> message]
success == [success |-> TRUE, error |-> "none"]

\* InMemorySliceRepository.findById: this.slices.get(id.value) || null
findById(slices, id) == IF id \in slices THEN id ELSE 0

\* execute(request): [response, sliceMappings, saved], the response, the
\* mappings of the current avatar after the call and whether it was saved
execute(sm, slices, request, out) ==
  IF out.getCurrent = "throws" THEN
    [response |-> failure("getCurrent failed"), sliceMappings |-> sm, saved |-> FALSE]
  ELSE IF out.getCurrent = "null" THEN
    [response |-> failure("No avatar found"), sliceMappings |-> sm, saved |-> FALSE]
  ELSE IF out.create = "throws" THEN
    [response |-> failure("Invalid slice id"), sliceMappings |-> sm, saved |-> FALSE]
  ELSE IF out.findById = "throws" THEN
    [response |-> failure("findById failed"), sliceMappings |-> sm, saved |-> FALSE]
  ELSE IF findById(slices, request.sliceId) = 0 THEN
    [response |-> failure("Slice not found"), sliceMappings |-> sm, saved |-> FALSE]
  ELSE
    LET added == addSliceMapping(sm, request.slotPath, SliceMapping(request.sliceId)) IN
    IF out.save = "throws"
    THEN [response |-> failure("save failed"), sliceMappings |-> added, saved |-> FALSE]
    ELSE [response |-> success, sliceMappings |-> added, saved |-> TRUE]

\* the slice ids of requests: those a store may hold and one it never holds
RequestIds == 1..(MaxMappingId + 1)
\* the slot paths of requests
RequestSlots == {P_MouthAI, P_HairFront}
NoExecute == [op |-> "none", request |-> [sliceId |-> 0, slotPath |-> NoSlot],
              outcomes |-> AllResolve,
              response |-> success,
              before |-> [tbl |-> [s \in AvatarSlots |-> NoMapping], keys |-> <<>>]]

\* ---- custom rules ----
\* a literal that matches the slice name "Fringe+", and two sources that do
\* not compile: an inline flag group and an unterminated group
CustomLiteral == <<"F","r","i","n","g","e">>   \* Fringe
CustomInlineFlag == <<"(","?","i",")","F","r","i","n","g","e">>   \* (?i)Fringe
CustomUnterminated == <<"F","r","i","n","g","e","(">>   \* Fringe(
CustomPatterns == {CustomLiteral, CustomInlineFlag, CustomUnterminated}
\* a literal that matches the folder of "Extras/Fringe+" and not its name
CustomFolder == <<"E","x","t","r","a","s">>   \* Extras

\* the custom rules an AutoMapper is constructed with
CustomRule(match) == [match |-> match, map |-> [group |-> <<"H","a","i","r">>, slot |-> <<"f","r","o","n","t">>]]
CustomRuleLists ==
  {<<CustomRule(CustomLiteral)>>,
   <<CustomRule(CustomInlineFlag), CustomRule(CustomLiteral)>>,
   <<CustomRule(CustomUnterminated), CustomRule(CustomLiteral)>>,
   <<CustomRule(CustomFolder)>>}

NoCustom == [op |-> "none", pattern |-> <<>>, slotPath |-> NoSlot, before |-> <<>>]

\* ---- useAvatarAssembly ----
\* InMemorySliceRepository.findUnmapped: the slices whose id is not marked
findUnmapped(slices, mappedSliceIds) == slices \ mappedSliceIds

\* the refresh of mapSliceToSlot after a successful execute: the state it
\* publishes, from findAll() and findUnmapped() as the repository answers
\* them at that point of the call
refreshed(prev, slices, mappedSliceIds, sliceId, slotPath) ==
  LET allSlices == slices
      unmappedSlices == findUnmapped(slices, mappedSliceIds)
  IN [prev EXCEPT !.allSlices = allSlices,
                  !.unmappedSlices = unmappedSlices,
                  !.mappedSlices = allSlices \ unmappedSlices,
                  !.selectedSlot = slotPath]

NoHookCall == [op |-> "none", sliceId |-> 0, success |-> FALSE]

\* the slot the panel maps slices to in the runs of the hook
HookSlots == {P_MouthAI}

(***************************************************************************)
(* AvatarCanvas (components/AvatarCanvas) and the exporter's preview        *)
(***************************************************************************)
\* the value of a property that is not there
Undefined == [undefined |-> TRUE]

\* the avatars and mapped slices the canvas is rendered with
CanvasSlots == {P_BodyTorso, P_HairBack, P_HairFront, P_FXSparkles}
CanvasDrawOrders == {DEFAULT_PATTERNS, NoFXPatterns, PatternsExample}
CanvasMappedKeys ==
  {<<P_HairFront, P_HairBack, P_BodyTorso>>, <<P_FXSparkles, P_HairFront>>}

\* Array.prototype.findIndex with the pattern test of createOrUpdateSprite
\* and generateAvatarPreview: the 0-based index of the first pattern that
\* passes, -1 when none does
findIndex(drawOrder, slotPath) ==
  LET hits == {i \in 1..Len(drawOrder) : matchesPattern(slotPath, drawOrder[i])} IN
  IF hits = {} THEN -1
  ELSE (CHOOSE i \in hits : \A j \in hits : i <= j) - 1

\* zOffsets[slotPath] || 0
zOffsetOrZero(zOffsets, slotPath) ==
  IF zOffsets[slotPath] = Undefined THEN Whole(0) ELSE OrZero(zOffsets[slotPath])

\* a z-index without the spacing between draw-order positions
spriteZIndex_Unscaled(drawOrder, zOffsets, slotPath) ==
  NumPlus(Whole(findIndex(drawOrder, slotPath)), zOffsetOrZero(zOffsets, slotPath))

\* createOrUpdateSprite: sprite.zIndex = (baseZIndex * 10) + zOffset
spriteZIndex(drawOrder, zOffsets, slotPath) ==
  NumPlus(Whole(findIndex(drawOrder, slotPath) * 10), zOffsetOrZero(zOffsets, slotPath))

\* the sprites after the effects that follow a render: one sprite per key of
\* mappedSlices, each with the z-index createOrUpdateSprite gives it
updateSprites(drawOrder, mapped, zOffsets) ==
  [s \in CanvasSlots |->
     IF s \in Range(mapped) THEN spriteZIndex(drawOrder, zOffsets, s) ELSE Undefined]

\* generateAvatarPreview: Object.entries(mappedSlices).sort by
\* indexA - indexB, the indices those of findIndex; the sort is stable
RECURSIVE previewInsert(_, _, _)
previewInsert(drawOrder, s, x) ==
  IF s = <<>> THEN <<x>>
  ELSE IF findIndex(drawOrder, Head(s)) - findIndex(drawOrder, x) > 0 THEN <<x>> \o s
  ELSE <<Head(s)>> \o previewInsert(drawOrder, Tail(s), x)

RECURSIVE sortedSlices(_, _)
sortedSlices(drawOrder, keys) ==
  IF keys = <<>> THEN <<>>
  ELSE previewInsert(drawOrder,
                     sortedSlices(drawOrder, SubSeq(keys, 1, Len(keys) - 1)),
                     keys[Len(keys)])

(***************************************************************************)
(* App: the assembly state (App.complex.tsx)                               *)
(***************************************************************************)
\* the slices extractAllSlices yields for the documents a run loads: one of
\* two layers ("Fringe+" and "A") and one of the single layer "A"
PsdDocuments == {<<6, 7>>, <<7>>}
\* the slots of the palette slices are dropped on
DropSlots == {P_HairFront, P_MouthAI}
\* the slot paths that can be keys of mappedSlices
AppSlots == DropSlots \cup {normalizeSlotPath(r.map.group, r.map.slot) :
                              r \in Range(getDefaultRules)}

\* the forEach over mappingResult.mapped in handleFileUpload:
\* [mapped, slices, paths] after it
RECURSIVE uploadMapped(_, _)
uploadMapped(acc, mapped) ==
  IF mapped = <<>> THEN acc
  ELSE LET m == Head(mapped) IN
       uploadMapped([mapped |-> [acc.mapped EXCEPT ![m.canonicalSlot] = m.slice],
                     slices |-> [acc.slices EXCEPT ![m.canonicalSlot] = m.slice],
                     paths  |-> Append(acc.paths,
                                       [sliceId |-> m.slice, canonical |-> m.canonicalSlot])],
                    Tail(mapped))

\* prev.unmappedSlices.filter(s => s.id !== id)
withoutSlice(unmapped, id) == LET keep(i) == i # id IN SelectSeq(unmapped, keep)

\* prev.psdPathMappings.filter(mapping => mapping.canonical !== slotPath)
withoutSlot(paths, slotPath) ==
  LET keep(m) == m.canonical # slotPath IN SelectSeq(paths, keep)

(***************************************************************************)
(* Initial state: the objects as constructed                               *)
(***************************************************************************)
NoCall == [slice |-> 0, slot |-> NoSlot, before |-> 0]
NoAvatarOp == [op |-> "none", slot |-> NoSlot, id |-> 0]

Init ==
  /\ amRules = getDefaultRules
  /\ amSlot = [id \in SliceIds |-> NoSlot]
  /\ amResult = [input |-> <<>>, nrules |-> 0, mapped |-> <<>>, unmapped |-> <<>>]
  /\ amAdded = [a \in LearnArgs |-> 0]
  /\ amLast = NoCall
  /\ svcRules = ServiceBootstrapRules
  /\ svcResult = [input |-> <<>>, nrules |-> 0, mapped |-> <<>>, unmapped |-> <<>>]
  /\ svcAdded = [a \in LearnArgs |-> 0]
  /\ svcLast = NoCall
  /\ svcCustom = NoCustom
  /\ sliceMappings = [tbl |-> [s \in AvatarSlots |-> NoMapping], keys |-> <<>>]
  /\ lastAdded = [s \in AvatarSlots |-> NoMapping]
  /\ avLast = << NoAvatarOp, NoAvatarOp >>
  /\ patterns = DEFAULT_PATTERNS
  /\ sortInput = <<>>
  /\ sortOutput = <<>>
  /\ atlasPc = "idle"
  /\ mappedSlices = <<>>
  /\ avatarSlices = [s \in AtlasSlots |-> NoRect]
  /\ avatarAtlas = "none"
  /\ canvasSide = 0
  /\ cursor = [i |-> 1, currentX |-> 0, currentY |-> 0, rowHeight |-> 0]
  /\ drawn = <<>>
  /\ zOffset = ZOffsetDefault.value
  /\ uiZOffset = Whole(0)
  /\ zLast = NoZOp
  /\ valCall = NoValCall
  /\ valResult = NoValResult
  /\ expPc = "idle"
  /\ expCalls = 0
  /\ expAvatar = exportAvatarOf({}, DefaultRigId)
  /\ expMapped = <<>>
  /\ expOptions = NoOptions
  /\ expIdx = 1
  /\ zipEntries = <<>>
  /\ avatarJson = stringifyAvatar(exportAvatarOf({}, DefaultRigId))
  /\ manifestHashes = {}
  /\ expSaved = <<>>
  /\ expError = "none"
  /\ blobFailed = FALSE
  /\ ucSlices = {}
  /\ ucLast = NoExecute
  /\ ucMappedSliceIds = {}
  /\ cvDrawOrder = DEFAULT_PATTERNS
  /\ cvMapped = <<>>
  /\ cvZOffsets = [s \in CanvasSlots |-> Undefined]
  /\ cvZIndex = [s \in CanvasSlots |-> Undefined]
  /\ appAllSlices = <<>>
  /\ appUnmappedSlices = <<>>
  /\ appMappedSlices = [s \in AppSlots |-> 0]
  /\ appAvatarSlices = [s \in AppSlots |-> 0]
  /\ appPsdPathMappings = <<>>
  /\ hookState = [allSlices |-> {}, unmappedSlices |-> {}, mappedSlices |-> {},
                  selectedSlot |-> NoSlot, error |-> "none"]
  /\ hookLast = NoHookCall

(***************************************************************************)
(* AutoMapper actions                                                      *)
(***************************************************************************)
\* slice.mapped = true; slice.canonicalSlot = result.canonicalSlot, per mapped slice
RECURSIVE markMapped(_, _)
markMapped(slots, mapped) ==
  IF mapped = <<>> THEN slots
  ELSE markMapped([slots EXCEPT ![Head(mapped).slice] = Head(mapped).canonicalSlot],
                  Tail(mapped))

AMMapSlices ==
  \E batch \in Batches :
    LET r == amMapSlices(amRules, batch) IN
    /\ amResult' = [input |-> batch, nrules |-> Len(amRules),
                    mapped |-> r.mapped, unmapped |-> r.unmapped]
    /\ amSlot' = markMapped(amSlot, r.mapped)
    /\ amLast' = NoCall
    /\ UNCHANGED <<amRules, amAdded>>
    /\ UNCHANGED <<svcVars, avatarVars, drawVars, atlasVars, zVars, valVars, exportVars, useCaseVars, canvasVars, asmVars, hookVars>>

AMManualMap ==
  \E id \in ManualSlices, slot \in ManualSlots :
    LET rules2 == amLearnFromMapping(amRules, SliceOf(id).name, slot) IN
    /\ amSlot' = [amSlot EXCEPT ![id] = slot]
    /\ amRules' = rules2
    /\ amAdded' = [amAdded EXCEPT ![<<id, slot>>] = @ + (Len(rules2) - Len(amRules))]
    /\ amLast' = [slice |-> id, slot |-> slot, before |-> Len(amRules)]
    /\ UNCHANGED amResult
    /\ UNCHANGED <<svcVars, avatarVars, drawVars, atlasVars, zVars, valVars, exportVars, useCaseVars, canvasVars, asmVars, hookVars>>

NextAM == AMMapSlices \/ AMManualMap
SpecAM == Init /\ [][NextAM]_vars

(***************************************************************************)
(* AutoMappingService actions                                              *)
(***************************************************************************)
SvcMapSlices ==
  \E batch \in Batches :
    LET r == svcMapSlices(svcRules, batch) IN
    /\ svcResult' = [input |-> batch, nrules |-> Len(svcRules),
                     mapped |-> r.mapped, unmapped |-> r.unmapped]
    /\ svcLast' = NoCall
    /\ UNCHANGED <<svcRules, svcAdded, svcCustom>>
    /\ UNCHANGED <<amVars, avatarVars, drawVars, atlasVars, zVars, valVars, exportVars, useCaseVars, canvasVars, asmVars, hookVars>>

SvcLearnFromMapping ==
  \E id \in ManualSlices, slot \in SvcManualSlots :
    LET rules2 == svcLearnFromMapping(svcRules, SliceOf(id).name, slot) IN
    /\ Len(rules2) - Len(ServiceBootstrapRules) <= MaxLearned
    /\ svcRules' = rules2
    /\ svcAdded' = [svcAdded EXCEPT ![<<id, slot>>] = @ + (Len(rules2) - Len(svcRules))]
    /\ svcLast' = [slice |-> id, slot |-> slot, before |-> Len(svcRules)]
    /\ UNCHANGED <<svcResult, svcCustom>>
    /\ UNCHANGED <<amVars, avatarVars, drawVars, atlasVars, zVars, valVars, exportVars, useCaseVars, canvasVars, asmVars, hookVars>>

NextSvc == SvcMapSlices \/ SvcLearnFromMapping
SpecSvc == Init /\ [][NextSvc]_vars

(***************************************************************************)
(* Avatar actions                                                          *)
(***************************************************************************)
AddSliceMapping ==
  \E s \in AvatarSlots, id \in 1..MaxMappingId :
    /\ sliceMappings' = addSliceMapping(sliceMappings, s, SliceMapping(id))
    /\ lastAdded' = [lastAdded EXCEPT ![s] = SliceMapping(id)]
    /\ avLast' = << avLast[2], [op |-> "add", slot |-> s, id |-> id] >>
    /\ UNCHANGED <<amVars, svcVars, drawVars, atlasVars, zVars, valVars, exportVars, useCaseVars, canvasVars, asmVars, hookVars>>

RemoveSliceMapping ==
  \E s \in AvatarSlots :
    /\ sliceMappings' = removeSliceMapping(sliceMappings, s)
    /\ avLast' = << avLast[2], [op |-> "remove", slot |-> s, id |-> 0] >>
    /\ UNCHANGED lastAdded
    /\ UNCHANGED <<amVars, svcVars, drawVars, atlasVars, zVars, valVars, exportVars, useCaseVars, canvasVars, asmVars, hookVars>>

NextAvatar == AddSliceMapping \/ RemoveSliceMapping
SpecAvatar == Init /\ [][NextAvatar]_vars

(***************************************************************************)
(* DrawOrder actions                                                       *)
(***************************************************************************)
\* DrawOrder.create(patterns) / DrawOrder.default(); the constructor throws on
\* an empty list, so every DrawOrder holds at least one pattern
DrawOrderCreate ==
  \E p \in PatternLists :
    /\ Len(p) > 0
    /\ patterns' = p
    /\ sortInput' = <<>>
    /\ sortOutput' = <<>>
    /\ UNCHANGED <<amVars, svcVars, avatarVars, atlasVars, zVars, valVars, exportVars, useCaseVars, canvasVars, asmVars, hookVars>>

\* one call per DrawOrder of a run: the DrawOrder is immutable and the call
\* reads nothing else, so a second call only repeats a first one
SortSlotPaths ==
  \E inp \in DistinctSeqs(SortSlots, MaxSortLen) \ {<<>>} :
    /\ sortInput = <<>>
    /\ sortInput' = inp
    /\ sortOutput' = sortSlotPaths(patterns, inp)
    /\ UNCHANGED patterns
    /\ UNCHANGED <<amVars, svcVars, avatarVars, atlasVars, zVars, valVars, exportVars, useCaseVars, canvasVars, asmVars, hookVars>>

NextDraw == DrawOrderCreate \/ SortSlotPaths
SpecDraw == Init /\ [][NextDraw]_vars

(***************************************************************************)
(* generateAtlas actions: the start of the call, one loop iteration, the   *)
(* end of the call                                                         *)
(***************************************************************************)
AtlasStart ==
  \E inp \in AtlasInputs :
    /\ atlasPc = "idle"
    /\ mappedSlices' = [k \in 1..Len(inp) |-> [slot |-> AtlasSlotNames[k], w |-> inp[k].w, h |-> inp[k].h]]
    /\ avatarSlices' = [s \in AtlasSlots |->
                          IF \E k \in 1..Len(inp) : AtlasSlotNames[k] = s
                          THEN LET k == CHOOSE k \in 1..Len(inp) : AtlasSlotNames[k] = s
                               IN SourceRect(k, inp[k])
                          ELSE NoRect]
    /\ canvasSide' = canvasSideFor(inp)
    /\ cursor' = [i |-> 1, currentX |-> 0, currentY |-> 0, rowHeight |-> 0]
    /\ drawn' = <<>>
    /\ atlasPc' = "packing"
    /\ UNCHANGED avatarAtlas
    /\ UNCHANGED <<amVars, svcVars, avatarVars, drawVars, zVars, valVars, exportVars, useCaseVars, canvasVars, asmVars, hookVars>>

AtlasPackSlice ==
  /\ atlasPc = "packing"
  /\ cursor.i <= Len(mappedSlices)
  /\ LET s   == mappedSlices[cursor.i]
         at  == rowCheck(cursor, canvasSide, s.w)
         rec == [x |-> at.currentX, y |-> at.currentY, w |-> s.w, h |-> s.h]
     IN /\ drawn' = Append(drawn, [slot |-> s.slot, x |-> rec.x, y |-> rec.y,
                                   w |-> s.w, h |-> s.h])
        /\ avatarSlices' =
             IF avatarSlices[s.slot] # NoRect
             THEN [avatarSlices EXCEPT ![s.slot] =
                     [x |-> rec.x, y |-> rec.y, w |-> rec.w, h |-> rec.h, id |-> @.id]]
             ELSE avatarSlices
        /\ cursor' = advance(at, s.w, s.h)
  /\ UNCHANGED <<atlasPc, mappedSlices, avatarAtlas, canvasSide>>
  /\ UNCHANGED <<amVars, svcVars, avatarVars, drawVars, zVars, valVars, exportVars, useCaseVars, canvasVars, asmVars, hookVars>>

AtlasFinish ==
  /\ atlasPc = "packing"
  /\ cursor.i > Len(mappedSlices)
  /\ avatarAtlas' = "atlas.png"
  /\ atlasPc' = "done"
  /\ UNCHANGED <<mappedSlices, avatarSlices, canvasSide, cursor, drawn>>
  /\ UNCHANGED <<amVars, svcVars, avatarVars, drawVars, zVars, valVars, exportVars, useCaseVars, canvasVars, asmVars, hookVars>>

NextAtlas == AtlasStart \/ AtlasPackSlice \/ AtlasFinish
SpecAtlas == Init /\ [][NextAtlas]_vars


(***************************************************************************)
(* ZOffset actions: the offset of one SliceMapping, and the offset the     *)
(* inspector keeps for the selected slot                                   *)
(***************************************************************************)
\* mapping.setZOffset(ZOffset.create(value)); a throwing constructor leaves
\* the mapping as it was
ZCreate ==
  \E value \in ZCreateInputs :
    LET z == ZOffsetCreate(value) IN
    /\ zOffset' = IF z.threw THEN zOffset ELSE z.value
    /\ zLast' = [op |-> "create", arg |-> value, threw |-> z.threw, before |-> zOffset]
    /\ UNCHANGED uiZOffset
    /\ UNCHANGED <<amVars, svcVars, avatarVars, drawVars, atlasVars, valVars, exportVars, useCaseVars, canvasVars, asmVars, hookVars>>

\* mapping.setZOffset(mapping.zOffset.increment())
ZIncrement ==
  LET z == increment(zOffset) IN
  /\ zOffset' = IF z.threw THEN zOffset ELSE z.value
  /\ zLast' = [op |-> "increment", arg |-> Whole(0), threw |-> z.threw, before |-> zOffset]
  /\ UNCHANGED uiZOffset
  /\ UNCHANGED <<amVars, svcVars, avatarVars, drawVars, atlasVars, valVars, exportVars, useCaseVars, canvasVars, asmVars, hookVars>>

\* mapping.setZOffset(mapping.zOffset.decrement())
ZDecrement ==
  LET z == decrement(zOffset) IN
  /\ zOffset' = IF z.threw THEN zOffset ELSE z.value
  /\ zLast' = [op |-> "decrement", arg |-> Whole(0), threw |-> z.threw, before |-> zOffset]
  /\ UNCHANGED uiZOffset
  /\ UNCHANGED <<amVars, svcVars, avatarVars, drawVars, atlasVars, valVars, exportVars, useCaseVars, canvasVars, asmVars, hookVars>>

\* a click on the inspector's -1 / +1 button with a slot selected:
\* handleZOffsetChange(delta), then App.handleNudgeZ stores the result
NudgeZ ==
  \E delta \in {Whole(-1), Whole(1)} :
    /\ uiZOffset' = handleZOffsetChange(OrZero(uiZOffset), delta)
    /\ zLast' = [op |-> "nudge", arg |-> delta, threw |-> FALSE, before |-> uiZOffset]
    /\ UNCHANGED zOffset
    /\ UNCHANGED <<amVars, svcVars, avatarVars, drawVars, atlasVars, valVars, exportVars, useCaseVars, canvasVars, asmVars, hookVars>>

NextZ == ZCreate \/ ZIncrement \/ ZDecrement \/ NudgeZ
SpecZ == Init /\ [][NextZ]_vars

(***************************************************************************)
(* SchemaValidator actions.  The validator keeps no state between calls,   *)
(* so a run makes one call.                                                *)
(***************************************************************************)
ValidateAvatarCompleteness ==
  \E avatar \in TypedAvatars :
    /\ valCall.op = "none"
    /\ valCall' = [op |-> "validateAvatarCompleteness", avatar |-> avatar,
                   manifest |-> NoManifest, items |-> <<>>]
    /\ valResult' = validateAvatarCompleteness(avatar)
    /\ UNCHANGED <<amVars, svcVars, avatarVars, drawVars, atlasVars, zVars, exportVars, useCaseVars, canvasVars, asmVars, hookVars>>

ValidateBundle ==
  \E manifest \in Manifests, avatar \in BundleAvatars, items \in ItemLists :
    /\ valCall.op = "none"
    /\ valCall' = [op |-> "validateBundle", avatar |-> avatar,
                   manifest |-> manifest, items |-> items]
    /\ valResult' = validateBundle(manifest, avatar, items)
    /\ UNCHANGED <<amVars, svcVars, avatarVars, drawVars, atlasVars, zVars, exportVars, useCaseVars, canvasVars, asmVars, hookVars>>

NextVal == ValidateAvatarCompleteness \/ ValidateBundle
SpecVal == Init /\ [][NextVal]_vars

(***************************************************************************)
(* exportBundle actions: the call up to its first await, then one action   *)
(* per await                                                               *)
(***************************************************************************)
\* the call from its start to its first await: manifest.json and avatar.json
\* are written.  The first call of a run fixes the avatar, the mapped
\* slices and the options; a later call exports the same avatar object again.
ExportStart ==
  \E S \in ExportSlotSets, rigId \in {DefaultRigId, <<>>}, options \in ExportOptionSets :
    LET avatar == IF expCalls = 0 THEN exportAvatarOf(S, rigId) ELSE expAvatar
        mapped == IF expCalls = 0 THEN mappedSlicesOf(keysOf(S)) ELSE expMapped
    IN /\ expPc \in {"idle", "saved", "failed"}
       /\ expCalls < MaxExportCalls
       /\ expCalls > 0 => /\ options = expOptions
                          /\ keysOf(S) = expAvatar.slices
                          /\ rigId = expAvatar.rigId
       /\ expCalls' = expCalls + 1
       /\ expAvatar' = avatar
       /\ expMapped' = mapped
       /\ expOptions' = options
       /\ zipEntries' = << entry("manifest.json", NoSlot), entry("avatar.json", NoSlot) >>
       /\ avatarJson' = stringifyAvatar(avatar)
       /\ manifestHashes' = generateManifestHashes(mapped)
       /\ expIdx' = 1
       /\ expSaved' = <<>>
       /\ expError' = "none"
       /\ blobFailed' = FALSE
       /\ expPc' = enterCanon(options, Len(mapped))
       /\ UNCHANGED <<amVars, svcVars, avatarVars, drawVars, atlasVars, zVars, valVars, useCaseVars, canvasVars, asmVars, hookVars>>

\* exportBundle rejects with the error of a rejected conversion
exportRejects(error) ==
  /\ expPc' = "failed"
  /\ expError' = error
  /\ UNCHANGED <<zipEntries, expIdx>>

\* addCanonicalSlices: the await of one slice's canvasToBlob
ExportCanonSlice ==
  \E blob \in BOOLEAN :
    LET r == canvasToBlob(blob) IN
    /\ expPc = "canon"
    /\ blobFailed' = ~blob
    /\ IF r.rejected THEN exportRejects(r.error)
       ELSE /\ zipEntries' = Append(zipEntries, entry("canon", expMapped[expIdx].slot))
            /\ expIdx' = IF expIdx < Len(expMapped) THEN expIdx + 1 ELSE 1
            /\ expPc' = IF expIdx < Len(expMapped) THEN "canon"
                        ELSE enterRaw(expOptions, Len(expMapped))
            /\ UNCHANGED expError
    /\ UNCHANGED <<expCalls, expAvatar, expMapped, expOptions, avatarJson, manifestHashes, expSaved>>
    /\ UNCHANGED <<amVars, svcVars, avatarVars, drawVars, atlasVars, zVars, valVars, useCaseVars, canvasVars, asmVars, hookVars>>

\* addRawSlices: the await of one slice's canvasToBlob
ExportRawSlice ==
  \E blob \in BOOLEAN :
    LET r == canvasToBlob(blob) IN
    /\ expPc = "raw"
    /\ blobFailed' = ~blob
    /\ IF r.rejected THEN exportRejects(r.error)
       ELSE /\ zipEntries' = Append(zipEntries, entry("raw", expMapped[expIdx].slot))
            /\ expIdx' = IF expIdx < Len(expMapped) THEN expIdx + 1 ELSE 1
            /\ expPc' = IF expIdx < Len(expMapped) THEN "raw" ELSE enterAtlas(expOptions)
            /\ UNCHANGED expError
    /\ UNCHANGED <<expCalls, expAvatar, expMapped, expOptions, avatarJson, manifestHashes, expSaved>>
    /\ UNCHANGED <<amVars, svcVars, avatarVars, drawVars, atlasVars, zVars, valVars, useCaseVars, canvasVars, asmVars, hookVars>>

\* generateAtlas(), which rewrites the avatar, then the await of the atlas
\* canvas's canvasToBlob
ExportAtlas ==
  \E blob \in BOOLEAN :
    LET r == canvasToBlob(blob) IN
    /\ expPc = "atlas"
    /\ expAvatar' = generateAtlas(expAvatar, expMapped)
    /\ blobFailed' = ~blob
    /\ IF r.rejected THEN exportRejects(r.error)
       ELSE /\ zipEntries' = Append(zipEntries, entry("atlas.png", NoSlot))
            /\ expPc' = enterPreviews(expOptions)
            /\ UNCHANGED <<expError, expIdx>>
    /\ UNCHANGED <<expCalls, expMapped, expOptions, avatarJson, manifestHashes, expSaved>>
    /\ UNCHANGED <<amVars, svcVars, avatarVars, drawVars, atlasVars, zVars, valVars, useCaseVars, canvasVars, asmVars, hookVars>>

\* generatePreviews: the await of the avatar preview's canvasToBlob
ExportPreviews ==
  \E blob \in BOOLEAN :
    LET r == canvasToBlob(blob) IN
    /\ expPc = "previews"
    /\ blobFailed' = ~blob
    /\ IF r.rejected THEN exportRejects(r.error)
       ELSE /\ zipEntries' = Append(zipEntries, entry("previews/avatar.png", NoSlot))
            /\ expPc' = "generate"
            /\ UNCHANGED <<expError, expIdx>>
    /\ UNCHANGED <<expCalls, expAvatar, expMapped, expOptions, avatarJson, manifestHashes, expSaved>>
    /\ UNCHANGED <<amVars, svcVars, avatarVars, drawVars, atlasVars, zVars, valVars, useCaseVars, canvasVars, asmVars, hookVars>>

\* README.txt, then the await of zip.generateAsync: saveAs when it resolves,
\* 'Failed to generate bundle' when it rejects
ExportGenerate ==
  \E generated \in BOOLEAN :
    /\ expPc = "generate"
    /\ zipEntries' = Append(zipEntries, entry("README.txt", NoSlot))
    /\ IF generated
       THEN /\ expSaved' = Append(expSaved, zipEntries')
            /\ expPc' = "saved"
            /\ UNCHANGED expError
       ELSE /\ expPc' = "failed"
            /\ expError' = "Failed to generate bundle"
            /\ UNCHANGED expSaved
    /\ UNCHANGED <<expCalls, expAvatar, expMapped, expOptions, avatarJson, manifestHashes, expIdx, blobFailed>>
    /\ UNCHANGED <<amVars, svcVars, avatarVars, drawVars, atlasVars, zVars, valVars, useCaseVars, canvasVars, asmVars, hookVars>>

NextExport ==
  \/ ExportStart \/ ExportCanonSlice \/ ExportRawSlice
  \/ ExportAtlas \/ ExportPreviews \/ ExportGenerate
SpecExport == Init /\ [][NextExport]_vars

(***************************************************************************)
(* MapSliceToSlotUseCase actions                                           *)
(***************************************************************************)
\* InMemorySliceRepository.save(slice)
SliceSave ==
  \E id \in 1..MaxMappingId :
    /\ id \notin ucSlices
    /\ ucSlices' = ucSlices \cup {id}
    /\ UNCHANGED <<sliceMappings, lastAdded, avLast, ucLast, ucMappedSliceIds>>
    /\ UNCHANGED <<amVars, svcVars, drawVars, atlasVars, zVars, valVars, exportVars, canvasVars, asmVars, hookVars>>

\* InMemorySliceRepository.delete(id)
SliceDelete ==
  \E id \in ucSlices :
    /\ ucSlices' = ucSlices \ {id}
    /\ ucMappedSliceIds' = ucMappedSliceIds \ {id}
    /\ UNCHANGED <<sliceMappings, lastAdded, avLast, ucLast>>
    /\ UNCHANGED <<amVars, svcVars, drawVars, atlasVars, zVars, valVars, exportVars, canvasVars, asmVars, hookVars>>

Execute ==
  \E sliceId \in RequestIds, slotPath \in RequestSlots, out \in Outcomes :
    LET request == [sliceId |-> sliceId, slotPath |-> slotPath]
        r == execute(sliceMappings, ucSlices, request, out)
    IN /\ sliceMappings' = r.sliceMappings
       /\ ucLast' = [op |-> "execute", request |-> request, outcomes |-> out,
                     response |-> r.response, before |-> sliceMappings]
       /\ UNCHANGED <<ucSlices, lastAdded, avLast, ucMappedSliceIds>>
       /\ UNCHANGED <<amVars, svcVars, drawVars, atlasVars, zVars, valVars, exportVars, canvasVars, asmVars, hookVars>>

NextUseCase == SliceSave \/ SliceDelete \/ Execute
SpecUseCase == Init /\ [][NextUseCase]_vars

(***************************************************************************)
(* Custom rules: an AutoMapper constructed with custom rules, and          *)
(* AutoMappingService.addCustomRule                                        *)
(***************************************************************************)
\* createAutoMapper(slotPalette, customRules): the AutoMapper of the run,
\* before any call on it
AMCreate ==
  \E customRules \in CustomRuleLists :
    /\ amRules = getDefaultRules
    /\ amResult.input = <<>>
    /\ amLast = NoCall
    /\ amRules' = newAutoMapper(customRules)
    /\ UNCHANGED <<amSlot, amResult, amAdded, amLast>>
    /\ UNCHANGED <<svcVars, avatarVars, drawVars, atlasVars, zVars, valVars, exportVars, useCaseVars, canvasVars, asmVars, hookVars>>

SvcAddCustomRule ==
  \E pattern \in CustomPatterns, slotPath \in SvcManualSlots :
    LET rules2 == svcAddCustomRule(svcRules, pattern, slotPath, DefaultCustomConfidence) IN
    /\ Len(rules2) - Len(ServiceBootstrapRules) <= MaxLearned
    /\ svcRules' = rules2
    /\ svcCustom' = [op |-> "addCustomRule", pattern |-> pattern, slotPath |-> slotPath,
                     before |-> svcRules]
    /\ UNCHANGED <<svcResult, svcAdded, svcLast>>
    /\ UNCHANGED <<amVars, avatarVars, drawVars, atlasVars, zVars, valVars, exportVars, useCaseVars, canvasVars, asmVars, hookVars>>

NextRules == AMCreate \/ AMMapSlices \/ SvcAddCustomRule
SpecRules == Init /\ [][NextRules]_vars

(***************************************************************************)
(* AvatarCanvas actions.  A state change of the application re-renders the *)
(* canvas and its effects run createOrUpdateSprite for every key of        *)
(* mappedSlices before the next event is handled.                          *)
(***************************************************************************)
\* the canvas is rendered with an avatar and mapped slices
CanvasRender ==
  \E drawOrder \in CanvasDrawOrders, mapped \in CanvasMappedKeys :
    /\ cvMapped = <<>>
    /\ cvDrawOrder' = drawOrder
    /\ cvMapped' = mapped
    /\ cvZIndex' = updateSprites(drawOrder, mapped, cvZOffsets)
    /\ UNCHANGED cvZOffsets
    /\ UNCHANGED <<amVars, svcVars, avatarVars, drawVars, atlasVars, zVars, valVars, exportVars, useCaseVars, asmVars, hookVars>>

\* a click on the inspector's -1 / +1 button with slotPath selected:
\* handleZOffsetChange(delta), handleNudgeZ(slotPath, newOffset), and the
\* sprites updated with the new zOffsets
CanvasNudgeZ ==
  \E slotPath \in Range(cvMapped), delta \in {Whole(-1), Whole(1)} :
    LET newOffset == handleZOffsetChange(zOffsetOrZero(cvZOffsets, slotPath), delta)
        zOffsets == [cvZOffsets EXCEPT ![slotPath] = newOffset]
    IN /\ cvZOffsets' = zOffsets
       /\ cvZIndex' = updateSprites(cvDrawOrder, cvMapped, zOffsets)
       /\ UNCHANGED <<cvDrawOrder, cvMapped>>
       /\ UNCHANGED <<amVars, svcVars, avatarVars, drawVars, atlasVars, zVars, valVars, exportVars, useCaseVars, asmVars, hookVars>>

NextCanvas == CanvasRender \/ CanvasNudgeZ
SpecCanvas == Init /\ [][NextCanvas]_vars

(***************************************************************************)
(* App actions.  The application's AutoMapper is amRules; DEFAULT_AVATAR   *)
(* is one object, and { ...DEFAULT_AVATAR } and { ...prev.avatar } copy    *)
(* only its top level, so every avatar of the state shares its             *)
(* images.slices record.                                                   *)
(***************************************************************************)
\* handleFileUpload with a file that loads: mapSlices over the extracted
\* slices, then the state built from its result
HandleFileUpload ==
  \E allSlices \in PsdDocuments :
    LET mappingResult == amMapSlices(amRules, allSlices)
        built == uploadMapped([mapped |-> [s \in AppSlots |-> 0],
                               slices |-> appAvatarSlices,
                               paths  |-> <<>>],
                              mappingResult.mapped)
    IN /\ appAllSlices' = allSlices
       /\ appUnmappedSlices' = mappingResult.unmapped
       /\ appMappedSlices' = built.mapped
       /\ appAvatarSlices' = built.slices
       /\ appPsdPathMappings' = built.paths
       /\ UNCHANGED amVars
       /\ UNCHANGED <<svcVars, avatarVars, drawVars, atlasVars, zVars, valVars, exportVars, useCaseVars, canvasVars, hookVars>>

\* handleSlotDrop(slotPath, slice): returns at once when the slice is not in
\* unmappedSlices; otherwise manualMap, then the state update
HandleSlotDrop ==
  \E slotPath \in DropSlots, id \in Range(appUnmappedSlices) :
    /\ amRules' = amLearnFromMapping(amRules, SliceOf(id).name, slotPath)
    /\ appMappedSlices' = [appMappedSlices EXCEPT ![slotPath] = id]
    /\ appUnmappedSlices' = withoutSlice(appUnmappedSlices, id)
    /\ appAvatarSlices' = [appAvatarSlices EXCEPT ![slotPath] = id]
    /\ appPsdPathMappings' =
         Append(appPsdPathMappings, [sliceId |-> id, canonical |-> slotPath])
    /\ UNCHANGED <<appAllSlices, amSlot, amResult, amAdded, amLast>>
    /\ UNCHANGED <<svcVars, avatarVars, drawVars, atlasVars, zVars, valVars, exportVars, useCaseVars, canvasVars, hookVars>>

\* handleRemoveSlice(slotPath): returns prev when the slot holds no slice
HandleRemoveSlice ==
  \E slotPath \in AppSlots :
    /\ appMappedSlices[slotPath] # 0
    /\ appMappedSlices' = [appMappedSlices EXCEPT ![slotPath] = 0]
    /\ appUnmappedSlices' = Append(appUnmappedSlices, appMappedSlices[slotPath])
    /\ appAvatarSlices' = [appAvatarSlices EXCEPT ![slotPath] = 0]
    /\ appPsdPathMappings' = withoutSlot(appPsdPathMappings, slotPath)
    /\ UNCHANGED appAllSlices
    /\ UNCHANGED amVars
    /\ UNCHANGED <<svcVars, avatarVars, drawVars, atlasVars, zVars, valVars, exportVars, useCaseVars, canvasVars, hookVars>>

NextApp == HandleFileUpload \/ HandleSlotDrop \/ HandleRemoveSlice
SpecApp == Init /\ [][NextApp]_vars

(***************************************************************************)
(* useAvatarAssembly.mapSliceToSlot over the use case and the in-memory    *)
(* slice repository                                                        *)
(***************************************************************************)
\* mapSliceToSlot(sliceId, slotPath): execute; on success the refresh from
\* the repositories, setState, and only then markAsMapped for the slice; on
\* failure the error is stored
MapSliceToSlot ==
  \E sliceId \in RequestIds, slotPath \in HookSlots, out \in Outcomes :
    LET request == [sliceId |-> sliceId, slotPath |-> slotPath]
        r == execute(sliceMappings, ucSlices, request, out)
    IN /\ sliceMappings' = r.sliceMappings
       /\ IF r.response.success
          THEN /\ hookState' = refreshed(hookState, ucSlices, ucMappedSliceIds,
                                         sliceId, slotPath)
               /\ ucMappedSliceIds' = ucMappedSliceIds \cup {sliceId}
          ELSE /\ hookState' = [hookState EXCEPT !.error = r.response.error]
               /\ UNCHANGED ucMappedSliceIds
       /\ hookLast' = [op |-> "mapSliceToSlot", sliceId |-> sliceId,
                       success |-> r.response.success]
       /\ UNCHANGED <<ucSlices, ucLast, lastAdded, avLast>>
       /\ UNCHANGED <<amVars, svcVars, drawVars, atlasVars, zVars, valVars, exportVars, canvasVars, asmVars>>

NextHook == SliceSave \/ SliceDelete \/ MapSliceToSlot
SpecHook == Init /\ [][NextHook]_vars

(***************************************************************************)
(* Properties of the rule engines                                          *)
(***************************************************************************)
\* C1: mapSlices over the bootstrap rules maps every slice one of whose
\* search strings a bootstrap pattern matches, to the target of a matching
\* rule, and leaves it out of unmapped; the slices Mouth/A, Eye L Open,
\* Eye R Open, Hair Front come back as Mouth/viseme/AI, Eyes/EyeL/state/open,
\* Eyes/EyeR/state/open, Hair/front with nothing unmapped.  The patterns are
\* read as the case-insensitive expressions they are written as; the
\* ServiceBootstrapRules table holds the same expressions in compiled form.
C1_BootstrapMatchesAreMapped ==
  (amResult.input # <<>> /\ amResult.nrules = Len(getDefaultRules)) =>
    /\ \A k \in 1..Len(amResult.input) :
         LET id == amResult.input[k]
             texts == searchTexts(SliceOf(id).name, SliceOf(id).psdPath)
             hits == {r \in 1..Len(ServiceBootstrapRules) :
                        \E t \in 1..Len(texts) :
                          RegExpTest(ServiceBootstrapRules[r].pattern, texts[t])}
         IN hits # {} =>
              /\ \E m \in 1..Len(amResult.mapped) :
                   /\ amResult.mapped[m].slice = id
                   /\ \E r \in hits :
                        amResult.mapped[m].canonicalSlot = ServiceBootstrapRules[r].slotPath
              /\ id \notin Range(amResult.unmapped)
    /\ amResult.input = <<1, 2, 3, 4>> =>
         /\ [m \in 1..Len(amResult.mapped) |-> amResult.mapped[m].canonicalSlot]
              = <<P_MouthAI, P_EyeLOpen, P_EyeROpen, P_HairFront>>
         /\ amResult.unmapped = <<>>

\* C2: the target chosen for a slice is that of the first matching
\* (search string, rule) pair, search strings outermost in the order name,
\* path, leaf, path with separators as spaces, rules in list order.
C2_FirstMatchingPairWins ==
  svcResult.input # <<>> =>
    LET rules == SubSeq(svcRules, 1, svcResult.nrules) IN
    \A m \in 1..Len(svcResult.mapped) :
      LET slice == SliceOf(svcResult.mapped[m].slice)
          texts == searchTexts(slice.name, slice.psdPath)
          pairs == {p \in (1..Len(texts)) \X (1..Len(rules)) :
                      RegExpTest(rules[p[2]].pattern, texts[p[1]])}
          first == CHOOSE p \in pairs :
                     \A q \in pairs : p[1] < q[1] \/ (p[1] = q[1] /\ p[2] <= q[2])
      IN /\ pairs # {}
         /\ svcResult.mapped[m].slotPath = rules[first[2]].slotPath

\* C3: calls of the learning operation with the same slice and the same slot
\* path add at most one rule between them.
C3_RepeatedLearningAddsOneRule ==
  \A a \in LearnArgs : svcAdded[a] <= 1

C5_OneMappingPerSlotLastWins ==
  \A s \in AvatarSlots :
    /\ Cardinality({i \in 1..Len(getSlotPaths(sliceMappings)) :
                      getSlotPaths(sliceMappings)[i] = s}) <= 1
    /\ hasSliceMapping(sliceMappings, s) =>
         getSliceMapping(sliceMappings, s) = lastAdded[s]
    /\ (avLast[2].op = "add" /\ avLast[2].slot = s) =>
         /\ hasSliceMapping(sliceMappings, s)
         /\ getSliceMapping(sliceMappings, s) = SliceMapping(avLast[2].id)

\* a slot path written twice in a row with different mappings
C5_Witness ==
  /\ avLast[1].op = "add" /\ avLast[2].op = "add"
  /\ avLast[1].slot = avLast[2].slot
  /\ avLast[1].id = 1 /\ avLast[2].id = 2
  /\ getSliceMapping(sliceMappings, avLast[2].slot).sliceId = 2
  /\ Len(getSlotPaths(sliceMappings)) >= 2

\* C6: addSliceMapping followed by removeSliceMapping on the same slot path
\* leaves hasSliceMapping false for it and the path out of getSlotPaths.
C6_AddThenRemoveLeavesNoMapping ==
  (/\ avLast[1].op = "add"
   /\ avLast[2].op = "remove"
   /\ avLast[1].slot = avLast[2].slot)
  => /\ ~hasSliceMapping(sliceMappings, avLast[2].slot)
     /\ avLast[2].slot \notin Range(getSlotPaths(sliceMappings))

\* an add followed by a remove of the same slot path, other slots still mapped
C6_Witness ==
  /\ avLast[1].op = "add"
  /\ avLast[2].op = "remove"
  /\ avLast[1].slot = avLast[2].slot
  /\ getSlotPaths(sliceMappings) # <<>>

C8_SortIsStablePermutation ==
  LET n == Len(sortInput)
      z(s) == getZIndex(patterns, s)
      pos(s) == CHOOSE i \in 1..n : sortInput[i] = s
  IN sortInput # <<>> =>
       /\ Len(sortOutput) = n
       /\ Range(sortOutput) = Range(sortInput)
       /\ \A i, j \in 1..Len(sortOutput) :
            i < j => /\ z(sortOutput[i]) <= z(sortOutput[j])
                     /\ z(sortOutput[i]) = z(sortOutput[j]) =>
                          pos(sortOutput[i]) < pos(sortOutput[j])
       /\ (patterns = PatternsExample
           /\ sortInput = <<P_HairFront, P_HairBack, P_BodyTorso>>) =>
            sortOutput = <<P_BodyTorso, P_HairBack, P_HairFront>>

\* the example call
C8_Witness ==
  /\ patterns = PatternsExample
  /\ sortInput = <<P_HairFront, P_HairBack, P_BodyTorso>>
  /\ sortOutput = <<P_BodyTorso, P_HairBack, P_HairFront>>

(***************************************************************************)
(* Properties of generateAtlas                                             *)
(***************************************************************************)
\* C9: the atlas rectangles of any two distinct packed slices do not overlap.
C9_AtlasRectsDisjoint ==
  LET overlap(a, b) ==
        /\ a.x < b.x + b.w /\ b.x < a.x + a.w
        /\ a.y < b.y + b.h /\ b.y < a.y + a.h
  IN /\ \A i, j \in 1..Len(drawn) : i # j => ~overlap(drawn[i], drawn[j])
     /\ atlasPc = "done" =>
          \A i, j \in 1..Len(mappedSlices) :
            i # j => ~overlap(avatarSlices[mappedSlices[i].slot],
                              avatarSlices[mappedSlices[j].slot])

\* a finished atlas of three slices in more than one row
C9_Witness ==
  /\ atlasPc = "done"
  /\ Len(drawn) = 3
  /\ \E i, j \in 1..Len(drawn) : drawn[i].y = 0 /\ drawn[j].y > 0 /\ drawn[j].x = 0

\* C10: every atlas rectangle lies inside the atlas, 0 <= x, 0 <= y,
\* x + w <= width and y + h <= height; a slice that does not fit gets none.
C10_AtlasRectsInsideAtlas ==
  /\ \A i \in 1..Len(drawn) :
       /\ 0 <= drawn[i].x /\ 0 <= drawn[i].y
       /\ drawn[i].x + drawn[i].w <= canvasSide
       /\ drawn[i].y + drawn[i].h <= canvasSide
  /\ atlasPc = "done" =>
       \A i \in 1..Len(mappedSlices) :
         LET r == avatarSlices[mappedSlices[i].slot] IN
         /\ r.x + r.w <= canvasSide
         /\ r.y + r.h <= canvasSide

(***************************************************************************)
(* Properties of the ZOffset value object                                  *)
(***************************************************************************)
ZInRange(a) == ~a.nan /\ MIN_VALUE.h <= a.h /\ a.h <= MAX_VALUE.h

\* C19: every zOffset is an integer in [-2, 2] in every reachable state: no
\* sequence of create / increment / decrement / nudge leaves the offset of a
\* mapping, or the offset the inspector stores, outside the range or
\* fractional.
C19_ZOffsetIsIntegerInRange ==
  /\ IsInteger(zOffset) /\ ZInRange(zOffset)
  /\ IsInteger(uiZOffset) /\ ZInRange(uiZOffset)

(***************************************************************************)
(* Properties of the validator                                             *)
(***************************************************************************)
\* the completeness checks ran on the avatar of the call: always in
\* validateAvatarCompleteness, in validateBundle when the avatar passed the
\* schema
CompletenessRan ==
  \/ valCall.op = "validateAvatarCompleteness"
  \/ valCall.op = "validateBundle" /\ validateAvatar(valCall.avatar).valid

MissingEssentialsOfCall == missingFrom(essentialSlots, valCall.avatar.slices)

\* C11: validating an avatar that lacks an essential slot yields an invalid
\* result with a completeness error that names every missing essential slot
\* (and no essential slot that is present).
C11_MissingEssentialSlotsAreNamed ==
  (CompletenessRan /\ Len(MissingEssentialsOfCall) > 0) =>
    /\ valResult.valid = FALSE
    /\ \E i \in 1..Len(valResult.errors) :
         LET e == valResult.errors[i] IN
         /\ startsWith(e, MsgMissingEssential)
         /\ \A k \in 1..Len(essentialSlots) :
              includes(e, essentialSlots[k])
                <=> essentialSlots[k] \in Range(MissingEssentialsOfCall)

\* an avatar missing Eyes/EyeL/state/closed and Mouth/viseme/REST was validated
C11_Witness ==
  /\ valCall.op = "validateAvatarCompleteness"
  /\ MissingEssentialsOfCall = <<P_EyeLClosed, P_MouthREST>>
  /\ valResult.valid = FALSE

\* the premise of C12: all essential slots and a rigId, and FX/sparkles
\* populated under the application's draw order without its FX/* pattern,
\* which covers every other slot; through validateBundle, with a manifest, an
\* avatar and items that pass their schemas
C12_Premise ==
  /\ \/ valCall.op = "validateAvatarCompleteness"
     \/ /\ valCall.op = "validateBundle"
        /\ validateAvatar(valCall.avatar).valid
        /\ validateManifest(valCall.manifest).valid
        /\ \A i \in 1..Len(valCall.items) : validateItem(valCall.items[i]).valid
  /\ Len(MissingEssentialsOfCall) = 0
  /\ ~rigIdFalsy(valCall.avatar)
  /\ P_FXSparkles \in Range(valCall.avatar.slices)
  /\ valCall.avatar.drawOrder = NoFXPatterns

\* C12 as stated: such an avatar validates with valid = true, no errors and
\* exactly one warning.
C12_UncoveredSlotGivesExactlyOneWarning ==
  C12_Premise =>
    /\ valResult.valid = TRUE
    /\ valResult.errors = <<>>
    /\ Len(valResult.warnings) = 1

C12_OtherWarnings ==
  (IF Len(missingFrom(recommendedVisemes, valCall.avatar.slices)) > 0 THEN 1 ELSE 0)
  + (IF Len(missingFrom(essentialAnchors, valCall.avatar.anchors)) > 0 THEN 1 ELSE 0)
  + (IF valCall.op = "validateBundle" /\ valCall.manifest.rigId # valCall.avatar.rigId
     THEN 1 ELSE 0)
  + (IF valCall.op = "validateBundle" /\ valCall.manifest.entryAvatar # AvatarJson
     THEN 1 ELSE 0)

\* C12, amended: such an avatar validates with valid = true and no errors;
\* exactly one of its warnings is the draw-order warning, and it names
\* FX/sparkles; there is one more warning for missing recommended visemes,
\* one for missing recommended anchors and, through validateBundle, one for a
\* manifest rigId that differs and one for an entry other than avatar.json.
\* The warning is the only one when none of these applies.
C12_UncoveredSlotGivesOneDrawOrderWarning ==
  C12_Premise =>
    /\ valResult.valid = TRUE
    /\ valResult.errors = <<>>
    /\ Cardinality({i \in 1..Len(valResult.warnings) :
                      valResult.warnings[i] = MsgUncovered \o P_FXSparkles}) = 1
    /\ Len(valResult.warnings) = 1 + C12_OtherWarnings

\* the complete avatar with an uncovered FX/sparkles was validated: one warning
C12_Witness ==
  /\ C12_Premise
  /\ C12_OtherWarnings = 0
  /\ valResult.warnings = << MsgUncovered \o P_FXSparkles >>

WarningTexts ==
  {MsgMissingVisemes, MsgMissingAnchors, MsgUncovered, MsgRigIdMismatch, MsgEntryPoint}

\* C14: validateAvatarCompleteness and validateBundle return valid = true
\* exactly when the returned errors list is empty; no warning (missing
\* recommended viseme, missing anchor, uncovered slot, rigId mismatch, entry
\* point) appears in errors, so warnings never make a result invalid.
C14_ValidIffNoErrors ==
  valCall.op # "none" =>
    /\ valResult.valid <=> (Len(valResult.errors) = 0)
    /\ \A i \in 1..Len(valResult.errors) :
         \A w \in WarningTexts : ~startsWith(valResult.errors[i], w)
    /\ \A i \in 1..Len(valResult.warnings) :
         \E w \in WarningTexts : startsWith(valResult.warnings[i], w)

\* a bundle with four warnings and no error came back valid
C14_Witness ==
  /\ valCall.op = "validateBundle"
  /\ Len(valResult.warnings) >= 4
  /\ valResult.errors = <<>>
  /\ valResult.valid = TRUE

(***************************************************************************)
(* Properties of exportBundle                                              *)
(***************************************************************************)
\* what validateBundle says of the exporter's manifest and avatar
ExportValidation ==
  validateBundle(generateManifest(expAvatar), avatarDocOf(expAvatar), <<>>)

\* C13: export is gated by validation: exportBundle never generates or saves
\* an archive for an avatar whose validation reports a blocking error
\* (missing essential slot, missing rigId, malformed document).
C13_NoArchiveForInvalidAvatar ==
  (expPc \in {"generate", "saved"} \/ expSaved # <<>>) => ExportValidation.valid

\* the entries a complete archive of the call holds, in the order written
ExpectedEntries ==
  << entry("manifest.json", NoSlot), entry("avatar.json", NoSlot) >>
  \o [k \in 1..Len(expMapped) |-> entry("canon", expMapped[k].slot)]
  \o (IF expOptions.includeRawSlices
      THEN [k \in 1..Len(expMapped) |-> entry("raw", expMapped[k].slot)] ELSE <<>>)
  \o (IF expOptions.includeAtlas THEN << entry("atlas.png", NoSlot) >> ELSE <<>>)
  \o (IF expOptions.generatePreviews
      THEN << entry("previews/avatar.png", NoSlot) >> ELSE <<>>)
  \o << entry("README.txt", NoSlot) >>

\* C15: export is all-or-nothing: when a conversion of a slice, atlas or
\* preview canvas fails, the call fails with an error and saves no archive;
\* a call saves at most one archive, and only one that holds every entry.
C15_ExportIsAllOrNothing ==
  /\ Len(expSaved) <= 1
  /\ blobFailed =>
       /\ expPc = "failed"
       /\ expError = "Failed to convert canvas to blob"
       /\ expSaved = <<>>
  /\ expPc = "failed" => (expError # "none" /\ expSaved = <<>>)
  /\ expSaved # <<>> =>
       /\ expPc = "saved"
       /\ expError = "none"
       /\ expSaved[1] = ExpectedEntries

\* the atlas conversion failed after every slice had been written to the zip
C15_Witness ==
  /\ blobFailed
  /\ expPc = "failed"
  /\ Len(expMapped) > 1
  /\ \E i \in 1..Len(zipEntries) : zipEntries[i] = entry("raw", expMapped[Len(expMapped)].slot)
  /\ expAvatar.atlas = "atlas.png"

\* C16: when atlas packing is requested, the avatar.json entry of the saved
\* archive carries the atlas image reference and, for each mapped slice, its
\* atlas-space rectangle: the text written is that of the avatar after
\* packing.
C16_AvatarJsonCarriesAtlasRects ==
  (expPc = "saved" /\ expOptions.includeAtlas) =>
    /\ avatarJson.atlas = "atlas.png"
    /\ \A k \in 1..Len(expMapped) :
         avatarJson.rects[expMapped[k].slot] = expAvatar.rects[expMapped[k].slot]

(***************************************************************************)
(* Properties of MapSliceToSlotUseCase                                     *)
(***************************************************************************)
\* C17: execute never throws: with no current avatar, with a slice id that is
\* not in the slice store, or with any step raising, it returns
\* {success: false, error: message}, and in every failure case the current
\* avatar's slot mappings are the same as before the call.
C17_FailureLeavesMappingsUnchanged ==
  ucLast.op = "execute" =>
    /\ (ucLast.outcomes.getCurrent # "avatar"
        \/ ucLast.request.sliceId \notin ucSlices
        \/ \E f \in DOMAIN ucLast.outcomes : ucLast.outcomes[f] = "throws")
       => ucLast.response.success = FALSE
    /\ ucLast.response.success = FALSE =>
         /\ ucLast.response.error # "none"
         /\ sliceMappings = ucLast.before

(***************************************************************************)
(* Properties of custom rules                                              *)
(***************************************************************************)
\* C18: a rule whose pattern does not compile is skipped and is never fatal:
\* addCustomRule with an invalid pattern returns with the rule list as it
\* was (and appends the compiled rule for a valid one), and mapSlices over a
\* rule list that holds invalid patterns returns {mapped, unmapped} with
\* every slice in exactly one of the two, a slice mapped exactly when a rule
\* that compiles matches one of its search strings.
C18_InvalidPatternIsSkipped ==
  /\ svcCustom.op = "addCustomRule" =>
       LET regex == NewRegExp(svcCustom.pattern, TRUE) IN
       IF regex.ok
       THEN svcRules = Append(svcCustom.before,
                              [pattern |-> regex.re, slotPath |-> svcCustom.slotPath,
                               confidence |-> DefaultCustomConfidence])
       ELSE svcRules = svcCustom.before
  /\ amResult.input # <<>> =>
       \A k \in 1..Len(amResult.input) :
         LET id == amResult.input[k]
             texts == searchTexts(SliceOf(id).name, SliceOf(id).psdPath)
             hit == \E r \in 1..Len(amRules), t \in 1..Len(texts) :
                      /\ NewRegExp(amRules[r].match, FALSE).ok
                      /\ RegExpTest(NewRegExp(amRules[r].match, FALSE).re, texts[t])
             inMapped == Cardinality({m \in 1..Len(amResult.mapped) :
                                        amResult.mapped[m].slice = id})
             inUnmapped == Cardinality({u \in 1..Len(amResult.unmapped) :
                                          amResult.unmapped[u] = id})
         IN /\ inMapped + inUnmapped = 1
            /\ hit <=> inMapped = 1

\* addCustomRule was called with a pattern that does not compile, and an
\* AutoMapper whose custom rules are an invalid one followed by a valid one
\* mapped the slice "Fringe+" through the valid one
C18_Witness ==
  /\ svcCustom.op = "addCustomRule"
  /\ ~NewRegExp(svcCustom.pattern, TRUE).ok
  /\ Len(amRules) = Len(getDefaultRules) + 2
  /\ ~NewRegExp(amRules[Len(getDefaultRules) + 1].match, FALSE).ok
  /\ \E m \in 1..Len(amResult.mapped) : amResult.mapped[m].slice = 6

(***************************************************************************)
(* Confidence of a match                                                   *)
(***************************************************************************)
\* the confidence as stated: the rule's base confidence, plus 0.1 when the
\* lower-cased search string contains the leaf of the target slot, minus 0.1
\* when the search string contains "/", clamped to [0, 1]
statedConfidence(text, rule) ==
  LET leaf == pop(split(toLowerCase(rule.slotPath), "/"))
      c1 == IF includes(toLowerCase(text), leaf) THEN Add01(rule.confidence)
            ELSE rule.confidence
      c2 == IF includes(text, <<"/">>) THEN Sub01(c1) ELSE c1
  IN Max(0, Min(c2, 10000))

\* C20 (AutoMappingService): every entry of mapSlices' mapped list carries
\* the stated confidence of a (search string, rule) pair that matched the
\* slice and has the entry's slot path.
C20_ServiceConfidenceAsStated ==
  \A m \in 1..Len(svcResult.mapped) :
    LET e == svcResult.mapped[m]
        texts == searchTexts(SliceOf(e.slice).name, SliceOf(e.slice).psdPath)
        rules == SubSeq(svcRules, 1, svcResult.nrules)
    IN \E t \in 1..Len(texts), r \in 1..Len(rules) :
         /\ RegExpTest(rules[r].pattern, texts[t])
         /\ rules[r].slotPath = e.slotPath
         /\ e.confidence = statedConfidence(texts[t], rules[r])

\* C20 (AutoMapper): a match never scores higher than the same rule matched
\* through a search string without "/": the confidence of every entry of
\* mapSlices' mapped list is at most the confidence of each rule with the
\* entry's slot on each search string of the slice that has no "/" and that
\* the rule matches.
C20_PathMatchNeverScoresHigher ==
  \A m \in 1..Len(amResult.mapped) :
    LET e == amResult.mapped[m]
        texts == searchTexts(SliceOf(e.slice).name, SliceOf(e.slice).psdPath)
    IN \A t \in 1..Len(texts), r \in 1..Len(amRules) :
         ( /\ ~includes(texts[t], <<"/">>)
           /\ amRuleMatches(amRules[r], texts[t])
           /\ normalizeSlotPath(amRules[r].map.group, amRules[r].map.slot) = e.canonicalSlot )
         => e.confidence <= amCalculateConfidence(texts[t], amRules[r])

\* C23: a wildcard pattern "Group/*" matches a slot path only when the path
\* begins with "Group/", and a pattern without a wildcard matches only the
\* identical slot path; "Hairband/x" is not matched by "Hair/*".
C23_WildcardMatchesOnlyUnderGroup ==
  \A s \in ZSlots, i \in 1..Len(patterns) :
    LET p == patterns[i] IN
    matchesPattern(s, p) =>
      IF includes(p, <<"*">>)
      THEN startsWith(s, SubSeq(p, 1, Len(p) - 1))
      ELSE s = p

\* C28: exportBundle leaves the caller's avatar document unchanged: when the
\* call has returned or failed, the avatar's slot rectangles and image
\* reference are those it had when the call began (the ones the call's
\* avatar.json entry was written from).
C28_ExportLeavesAvatarUnchanged ==
  expPc \in {"saved", "failed"} => stringifyAvatar(expAvatar) = avatarJson

\* C29: the hashes map of the manifest has exactly one entry for each
\* canonical slice file written to the archive, keyed by that file's archive
\* path slices/canon/<slot path>.png; no two populated slots share a key.
C29_OneHashPerCanonicalFile ==
  expPc = "saved" =>
    /\ manifestHashes =
         {canonArchivePath(expSaved[1][i].slot) :
            i \in {j \in 1..Len(expSaved[1]) : expSaved[1][j].kind = "canon"}}
    /\ Cardinality(manifestHashes) = Len(expMapped)

C25_ManualCorrectionIsReused ==
  \A k \in 1..Len(amResult.input) :
    LET id == amResult.input[k]
        learned == {slot \in ManualSlots :
                      \E r \in (Len(getDefaultRules) + 1)..amResult.nrules :
                        amRules[r] = amNewRule(SliceOf(id).name, slot)}
    IN learned # {} =>
         \E m \in 1..Len(amResult.mapped) :
           /\ amResult.mapped[m].slice = id
           /\ amResult.mapped[m].canonicalSlot \in learned

(***************************************************************************)
(* Properties of the canvas z-index                                        *)
(***************************************************************************)
\* C21: the places that compute a slot's draw-order index agree with
\* DrawOrder.getZIndex: the z-index of every sprite is getZIndex * 10 plus
\* the slot's offset, and the preview composites the mapped slots in the
\* order sortSlotPaths gives; a populated slot that matches no pattern gets
\* the pattern count and comes after every slot that matches one.
C21_DrawOrderIndexAgrees ==
  /\ \A s \in Range(cvMapped) :
       cvZIndex[s] = NumPlus(Whole(getZIndex(cvDrawOrder, s) * 10),
                             zOffsetOrZero(cvZOffsets, s))
  /\ sortedSlices(cvDrawOrder, cvMapped) = sortSlotPaths(cvDrawOrder, cvMapped)

C26_EverySliceInExactlyOnePlace ==
  \A k \in 1..Len(appAllSlices) :
    LET id == appAllSlices[k] IN
    Cardinality({i \in 1..Len(appUnmappedSlices) : appUnmappedSlices[i] = id})
      + Cardinality({s \in AppSlots : appMappedSlices[s] = id}) = 1

\* C27: the key set of avatar.images.slices is the key set of mappedSlices,
\* each entry's id is the id of the slice in that slot, and psdPathMappings
\* has exactly one entry per populated slot and none for any other.
C27_AvatarSlicesMatchMappedSlices ==
  /\ \A s \in AppSlots : appAvatarSlices[s] = appMappedSlices[s]
  /\ \A s \in AppSlots :
       Cardinality({i \in 1..Len(appPsdPathMappings) :
                      appPsdPathMappings[i].canonical = s})
         = IF appMappedSlices[s] # 0 THEN 1 ELSE 0

(***************************************************************************)
(* Properties of useAvatarAssembly                                         *)
(***************************************************************************)
\* C30: after mapSliceToSlot(sliceId, slotPath) has completed successfully,
\* the hook state does not list the slice in unmappedSlices and lists it in
\* mappedSlices.
C30_PublishedStateReflectsMapping ==
  (hookLast.op = "mapSliceToSlot" /\ hookLast.success) =>
    /\ hookLast.sliceId \notin hookState.unmappedSlices
    /\ hookLast.sliceId \in hookState.mappedSlices

====
